---- MODULE Spec2Model ----
(***************************************************************************)
(* Model of the token grouping and threshold analytics of MigDBQuery:      *)
(* QueryService.fetchProfitableTokenGroupsWithMigration (migration rates   *)
(* and the percentile "common rise") and                                   *)
(* QueryService.findProfitableTokenGroups (the threshold simulation).      *)
(*                                                                         *)
(* Amounts of SOL are integers counted in units of 0.00001 SOL, so that    *)
(* the rounding to 4 decimals done by the code is a real operation.        *)
(* Percentages are kept in hundredths of a percent where the code rounds   *)
(* them to 2 decimals.  Quotients the code does not round (thresholds,     *)
(* win rates, average profits) are kept as exact fractions num/den.        *)
(***************************************************************************)
EXTENDS Integers, Sequences, FiniteSets, Bags, TLC

VARIABLES store, call

vars == <<store, call>>

(***************************************************************************)
(* Bounds of the model.                                                    *)
(***************************************************************************)
MaxRecords == 3
MaxProfitRecords == 5
MaxShuffled == 2

(***************************************************************************)
(* Values.                                                                 *)
(***************************************************************************)
\* An optional value: <<>> is JavaScript's undefined, <<v>> a present value.
Undefined == <<>>
Some(v) == <<v>>
IsDefined(o) == o # <<>>
Get(o) == o[1]

\* A JavaScript number that may be NaN.
Num(v) == [nan |-> FALSE, v |-> v]
NaN == [nan |-> TRUE, v |-> 0]

\* 1 SOL, 0.0001 SOL and 0.01 SOL in model units.
SOL == 100000
E4 == 10
E2 == 1000
\* 0.05 SOL: below this mintSlotSol is replaced by mintBuyAmt.
MinSlotSol == 5000
DefaultWinPercent == 70

Abs(x) == IF x < 0 THEN -x ELSE x

(***************************************************************************)
(* IEEE 754 binary64 arithmetic, as JavaScript and MongoDB compute with    *)
(* numbers.  A natural number of any size is a little-endian sequence of   *)
(* limbs below Base; a double is a sign, a 53-bit significand m and an     *)
(* exponent e standing for m * 2^e (zero has the empty significand).       *)
(***************************************************************************)
LimbBits == 15
Pow2(k) == 2 ^ k
Base == Pow2(LimbBits)
SignificandBits == 53
DoubleZero == [neg |-> FALSE, m |-> <<>>, e |-> 0]

\* the sum of F(i) over the finite set S, F giving natural numbers
LimbSum(S, F(_)) == BagCardinality([i \in S |-> F(i) + 1]) - Cardinality(S)

\* a[i], limbs past the end being 0
Limb(a, i) == IF i >= 1 /\ i <= Len(a) THEN a[i] ELSE 0

\* a without its leading limbs 0: d is the number of them
BigTrim(a) ==
  SubSeq(a, 1, Len(a) - (CHOOSE d \in 0..Len(a) :
                           /\ d = Len(a) \/ a[Len(a) - d] # 0
                           /\ \A k \in 0..(d - 1) : a[Len(a) - k] = 0))

\* the limbs of a number below 2^31, and the number of at most three limbs
BigOf(n) == BigTrim(<<n % Base, (n \div Base) % Base, n \div (Base * Base)>>)
BigToInt(a) == Limb(a, 1) + Base * Limb(a, 2) + Base * Base * Limb(a, 3)

\* a + b: a carry enters limb i when the nearest limb below it that is not
\* full overflows; that limb is d places below
BigCarryAt(a, b, i, d) == d < i /\ Limb(a, i - d) + Limb(b, i - d) >= Base
BigCarry(a, b, i) ==
  BigCarryAt(a, b, i, CHOOSE d \in 1..i :
                        /\ d = i \/ Limb(a, i - d) + Limb(b, i - d) # Base - 1
                        /\ \A k \in 1..(d - 1) : Limb(a, i - k) + Limb(b, i - k) = Base - 1)
BigAddTo(a, b, n) ==
  BigTrim([i \in 1..n |->
             (Limb(a, i) + Limb(b, i) + (IF BigCarry(a, b, i) THEN 1 ELSE 0)) % Base])
BigAdd(a, b) == IF Len(a) > Len(b) THEN BigAddTo(a, b, Len(a) + 1) ELSE BigAddTo(a, b, Len(b) + 1)

\* a - b for a >= b: limb i is borrowed from when the nearest limb below it
\* where a and b differ is too small
BigBorrowAt(a, b, i, d) == d < i /\ Limb(a, i - d) < Limb(b, i - d)
BigBorrow(a, b, i) ==
  BigBorrowAt(a, b, i, CHOOSE d \in 1..i :
                         /\ d = i \/ Limb(a, i - d) # Limb(b, i - d)
                         /\ \A k \in 1..(d - 1) : Limb(a, i - k) = Limb(b, i - k))
BigSub(a, b) ==
  IF b = <<>> THEN a
  ELSE BigTrim([i \in 1..Len(a) |->
                  (Limb(a, i) - Limb(b, i) - (IF BigBorrow(a, b, i) THEN 1 ELSE 0)) % Base])

\* -1, 0 or 1 as a is below, equal to or above b, which have as many limbs
\* and differ first, from the top, d limbs down
BigCmpAt(a, b, d) ==
  IF d = Len(a) THEN 0 ELSE IF a[Len(a) - d] < b[Len(a) - d] THEN 0 - 1 ELSE 1
BigCmp(a, b) ==
  IF Len(a) < Len(b) THEN 0 - 1
  ELSE IF Len(a) > Len(b) THEN 1
  ELSE BigCmpAt(a, b, CHOOSE d \in 0..Len(a) :
                        /\ d = Len(a) \/ a[Len(a) - d] # b[Len(a) - d]
                        /\ \A k \in 0..(d - 1) : a[Len(a) - k] = b[Len(a) - k])

\* a * k for 0 <= k <= Base: the low limbs of the products plus their high
\* limbs one place up
BigMulSmall(a, k) ==
  IF a = <<>> \/ k = 0 THEN <<>>
  ELSE
  BigAdd([i \in 1..Len(a) |-> (a[i] * k) % Base],
         [i \in 1..(Len(a) + 1) |-> (Limb(a, i - 1) * k) \div Base])

\* a * b by columns: column i holds the products a[j] * b[i + 1 - j], whose
\* low limbs and high limbs are summed apart; a sum is below Len(a) * Base
BigMulRange(a, b, i) ==
  (IF i > Len(b) THEN i + 1 - Len(b) ELSE 1)..(IF i < Len(a) THEN i ELSE Len(a))
BigMulLow(a, b, i) == LimbSum(BigMulRange(a, b, i), LAMBDA j : (a[j] * b[i + 1 - j]) % Base)
BigMulHigh(a, b, i) == LimbSum(BigMulRange(a, b, i), LAMBDA j : (a[j] * b[i + 1 - j]) \div Base)
BigMulSums(lows, highs) ==
  BigAdd(BigAdd([i \in 1..Len(lows) |-> lows[i] % Base],
                [i \in 1..(Len(lows) + 1) |-> IF i = 1 THEN 0 ELSE lows[i - 1] \div Base]),
         BigAdd([i \in 1..(Len(highs) + 1) |-> IF i = 1 THEN 0 ELSE highs[i - 1] % Base],
                [i \in 1..(Len(highs) + 2) |-> IF i <= 2 THEN 0 ELSE highs[i - 2] \div Base]))
BigMul(a, b) ==
  IF a = <<>> \/ b = <<>> THEN <<>>
  ELSE IF Len(b) = 1 THEN BigMulSmall(a, b[1])
  ELSE IF Len(a) = 1 THEN BigMulSmall(b, a[1])
  ELSE BigMulSums([i \in 1..(Len(a) + Len(b) - 1) |-> BigMulLow(a, b, i)],
                  [i \in 1..(Len(a) + Len(b) - 1) |-> BigMulHigh(a, b, i)])

\* quotient and remainder of a by d, 0 < d <= Base; BigRem is the remainder
\* of the number the limbs from i upwards make
RECURSIVE BigRem(_, _, _)
BigRem(a, d, i) == IF i > Len(a) THEN 0 ELSE ((BigRem(a, d, i + 1) * Base) + a[i]) % d
BigDivSmall(a, d) ==
  IF d = 1 THEN [q |-> a, r |-> 0]
  ELSE
  [q |-> BigTrim([i \in 1..Len(a) |-> ((BigRem(a, d, i + 1) * Base) + a[i]) \div d]),
   r |-> BigRem(a, d, 1)]

\* a * 2^k and floor(a / 2^k)
BigShl(a, k) ==
  IF a = <<>> \/ k = 0 THEN a
  ELSE
  BigTrim([i \in 1..(Len(a) + k \div LimbBits + 1) |->
             ((Limb(a, i - k \div LimbBits) * Pow2(k % LimbBits)) % Base)
             + ((Limb(a, i - k \div LimbBits - 1) * Pow2(k % LimbBits)) \div Base)])
BigShr(a, k) ==
  IF k = 0 THEN a
  ELSE IF k \div LimbBits >= Len(a) THEN <<>>
  ELSE BigTrim([i \in 1..(Len(a) - k \div LimbBits) |->
                  (Limb(a, i + k \div LimbBits) \div Pow2(k % LimbBits))
                  + ((Limb(a, i + k \div LimbBits + 1) % Pow2(k % LimbBits))
                       * Pow2(LimbBits - (k % LimbBits)))])

\* a less its multiples of 2^k
BigLowBits(a, k) ==
  BigTrim([i \in 1..(IF Len(a) <= k \div LimbBits THEN Len(a) ELSE k \div LimbBits + 1) |->
             IF i <= k \div LimbBits THEN a[i] ELSE a[i] % Pow2(k % LimbBits)])

\* the number of bits of n < 2^31 and of a
BitLen(n) == CHOOSE k \in 0..31 : (k = 0 \/ n >= Pow2(k - 1)) /\ (k = 31 \/ n < Pow2(k))
BigBitLen(a) == IF a = <<>> THEN 0 ELSE LimbBits * (Len(a) - 1) + BitLen(a[Len(a)])

BigIsOdd(a) == a # <<>> /\ a[1] % 2 = 1

\* the double nearest to (num / den) * 2^e, halves to the even significand;
\* num is a natural number of any size, 0 < den <= Base.  The quotient of
\* num * 2^s by den is taken with at least two bits more than a significand
\* holds (extra of them), m0 is its leading 53 bits, c compares what was cut
\* off with half a unit of m0 and sticky tells of a remainder below that.
RoundRenormalized(neg, m, e) ==
  IF BigBitLen(m) > SignificandBits THEN [neg |-> neg, m |-> BigShr(m, 1), e |-> e + 1]
  ELSE [neg |-> neg, m |-> m, e |-> e]
RoundUp(neg, m0, c, sticky, e) ==
  IF c > 0 \/ (c = 0 /\ (sticky \/ BigIsOdd(m0)))
  THEN RoundRenormalized(neg, BigAdd(m0, <<1>>), e)
  ELSE [neg |-> neg, m |-> m0, e |-> e]
RoundHalf(neg, q, sticky, e, extra) ==
  RoundUp(neg, BigShr(q, extra), BigCmp(BigLowBits(q, extra), BigShl(<<1>>, extra - 1)),
          sticky, e + extra)
RoundQuotient(neg, d, e) ==
  RoundHalf(neg, d.q, d.r # 0, e, BigBitLen(d.q) - SignificandBits)
RoundShifted(neg, num, den, e, need) ==
  IF need > 0 THEN RoundQuotient(neg, BigDivSmall(BigShl(num, need), den), e - need)
  ELSE RoundQuotient(neg, BigDivSmall(num, den), e)
RoundToDouble(neg, num, den, e) ==
  IF num = <<>> THEN DoubleZero
  ELSE RoundShifted(neg, num, den, e, SignificandBits + 2 + BitLen(den) - BigBitLen(num))

\* the double of an integer, of a quotient of two integers (a literal such
\* as 0.3 is the double nearest to 3/10), and of an amount in model units
DoubleOfInt(k) == RoundToDouble(k < 0, BigOf(Abs(k)), 1, 0)
DoubleOfRatio(a, b) == RoundToDouble(a < 0, BigOf(Abs(a)), b, 0)
DoubleOfUnits(v) == RoundToDouble(v < 0, BigOf(Abs(v)), 3125, 0 - 5)

\* the smaller exponent of two doubles, and a significand at that exponent
DoubleMinExp(a, b) == IF a.e < b.e THEN a.e ELSE b.e
DoubleAligned(a, e) == BigShl(a.m, a.e - e)

\* sign of a - b
DoubleCmpAligned(a, b, e) == BigCmp(DoubleAligned(a, e), DoubleAligned(b, e))
DoubleCmp(a, b) ==
  IF a.neg /\ ~b.neg THEN (IF a.m = <<>> /\ b.m = <<>> THEN 0 ELSE 0 - 1)
  ELSE IF ~a.neg /\ b.neg THEN (IF a.m = <<>> /\ b.m = <<>> THEN 0 ELSE 1)
  ELSE IF a.neg THEN DoubleCmpAligned(b, a, DoubleMinExp(a, b))
  ELSE DoubleCmpAligned(a, b, DoubleMinExp(a, b))

\* the double of m * 2^e for a natural number m of any size
DoubleOfScaled(neg, m, e) == RoundToDouble(neg, m, 1, e)
DoubleOfExact(t) == IF t.m = <<>> THEN DoubleZero ELSE DoubleOfScaled(t.neg, t.m, t.e)

DoubleNeg(a) == IF a.m = <<>> THEN a ELSE [a EXCEPT !.neg = ~a.neg]

\* the exact sum [neg, m, e] of acc and b, with a significand m of any size
ExactAddAligned(xneg, x, yneg, y, e) ==
  IF xneg = yneg THEN [neg |-> xneg, m |-> BigAdd(x, y), e |-> e]
  ELSE IF BigCmp(x, y) >= 0 THEN [neg |-> xneg, m |-> BigSub(x, y), e |-> e]
  ELSE [neg |-> yneg, m |-> BigSub(y, x), e |-> e]
ExactAddAt(acc, b, e) ==
  ExactAddAligned(acc.neg, DoubleAligned(acc, e), b.neg, DoubleAligned(b, e), e)
ExactAdd(acc, b) ==
  IF acc.m = <<>> THEN b
  ELSE IF b.m = <<>> THEN acc
  ELSE ExactAddAt(acc, b, DoubleMinExp(acc, b))

\* a + b, a - b, a * b and a / k (k a positive integer), each rounded once
DoubleAdd(a, b) == DoubleOfExact(ExactAdd(a, b))
DoubleSub(a, b) == DoubleAdd(a, DoubleNeg(b))
DoubleMul(a, b) ==
  IF a.m = <<>> \/ b.m = <<>> THEN DoubleZero
  ELSE DoubleOfScaled(a.neg # b.neg, BigMul(a.m, b.m), a.e + b.e)
DoubleDivInt(a, k) == IF a.m = <<>> THEN DoubleZero ELSE RoundToDouble(a.neg, a.m, k, a.e)

\* floor(m / 2^k) and floor(-m / 2^k), q being floor(m / 2^k)
FloorOfQuotient(neg, m, k, q) ==
  IF ~neg THEN BigToInt(q)
  ELSE IF BigShl(q, k) = m THEN 0 - BigToInt(q) ELSE 0 - BigToInt(q) - 1
FloorOfScaled(neg, m, k) == FloorOfQuotient(neg, m, k, BigShr(m, k))

\* Math.floor(a) and Math.round(a) = floor(a + 1/2), as integers; both are
\* exact operations on the double
MathFloorOf(a) ==
  IF a.m = <<>> THEN 0
  ELSE IF a.e >= 0 THEN (IF a.neg THEN 0 - 1 ELSE 1) * BigToInt(BigShl(a.m, a.e))
  ELSE FloorOfScaled(a.neg, a.m, 0 - a.e)
RoundHalfUp(neg, m, k, half) ==
  IF ~neg THEN FloorOfScaled(FALSE, BigAdd(m, half), k)
  ELSE IF BigCmp(m, half) <= 0 THEN 0
  ELSE FloorOfScaled(TRUE, BigSub(m, half), k)
MathRoundOf(a) ==
  IF a.m = <<>> THEN 0
  ELSE IF a.e >= 0 THEN (IF a.neg THEN 0 - 1 ELSE 1) * BigToInt(BigShl(a.m, a.e))
  ELSE RoundHalfUp(a.neg, a.m, 0 - a.e, BigShl(<<1>>, 0 - a.e - 1))

\* MongoDB's $round of a double: the double is taken to a decimal of 34
\* significant digits (Decimal128), which is quantized to the wanted number
\* of places, both times halves to the even digit.  A decimal is a
\* coefficient c of any size and an exponent x, standing for c * 10^x; the
\* double m * 2^-k is exactly (m * 5^k) * 10^-k.
Decimal128Digits == 34

\* 5^k by squaring, and 10^k
BigSquare(a) == BigMul(a, a)
RECURSIVE BigPow5(_)
BigPow5(k) ==
  IF k <= 13 THEN BigOf(5 ^ k)
  ELSE IF k % 2 = 0 THEN BigSquare(BigPow5(k \div 2))
  ELSE BigMulSmall(BigSquare(BigPow5(k \div 2)), 5)
BigPow10(k) == BigShl(BigPow5(k), k)

\* the number of decimal digits of a # 0: a number of n bits is at least
\* 2^(n - 1) and below 2^n, and log10(2) is between 0.30102 and 0.30103, so
\* that it has `least` digits or one more
BigDigitsFrom(a, least) == IF BigCmp(a, BigPow10(least)) >= 0 THEN least + 1 ELSE least
BigDigits(a) == BigDigitsFrom(a, ((BigBitLen(a) - 1) * 30102) \div 100000 + 1)

\* the whole number nearest to a / 2^s, halves to the even one; q is
\* floor(a / 2^s) and c the sign of the rest less a half
BigHalfEven(q, c) == IF c > 0 \/ (c = 0 /\ BigIsOdd(q)) THEN BigAdd(q, <<1>>) ELSE q
BigShrHalfEven(a, s) ==
  BigHalfEven(BigShr(a, s), BigCmp(BigLowBits(a, s), BigShl(<<1>>, s - 1)))

\* the double a # 0 below 10^34 in size, as the decimal of at most 34 digits;
\* c is m * 5^k for a = m * 2^-k, and with `drop` digits too many,
\* c / 10^drop is (m * 5^(k - drop)) / 2^drop
Decimal128Dropped(a, c, drop) ==
  IF drop <= 0 THEN [c |-> c, x |-> a.e]
  ELSE [c |-> BigShrHalfEven(BigMul(a.m, BigPow5(0 - a.e - drop)), drop), x |-> a.e + drop]
Decimal128Exact(a, c) == Decimal128Dropped(a, c, BigDigits(c) - Decimal128Digits)
Decimal128Of(a) ==
  IF a.e >= 0 THEN [c |-> BigShl(a.m, a.e), x |-> 0]
  ELSE Decimal128Exact(a, BigMul(a.m, BigPow5(0 - a.e)))

\* n is the whole number nearest to c / p, halves going to the even one:
\* (2n - 1) * p <= 2c <= (2n + 1) * p, a bound being met only by an even n;
\* c2 is 2c
DecimalAbove(c2, p, n) ==
  n = 0 \/ BigCmp(c2, BigMul(BigOf(2 * n - 1), p)) >= (IF n % 2 = 0 THEN 0 ELSE 1)
DecimalBelow(c2, p, n) ==
  BigCmp(c2, BigMul(BigOf(2 * n + 1), p)) <= (IF n % 2 = 0 THEN 0 ELSE 0 - 1)
DecimalNearest(c2, p, floor) ==
  CHOOSE n \in {floor, floor + 1} : DecimalAbove(c2, p, n) /\ DecimalBelow(c2, p, n)

\* the decimal in units of 10^-places, floor being the floor of the double in
\* these units, which the 34 digits leave at floor or floor + 1
DecimalQuantized(dec, places, floor) ==
  IF dec.x + places >= 0 THEN BigToInt(dec.c) * (10 ^ (dec.x + places))
  ELSE DecimalNearest(BigShl(dec.c, 1), BigPow10(0 - places - dec.x), floor)

\* $round [a, places] as a whole number of units of 10^-places
DecimalFloor(a, places) ==
  IF a.e >= 0 THEN BigToInt(BigShl(a.m, a.e)) * (10 ^ places)
  ELSE BigToInt(BigShr(BigMul(a.m, BigOf(10 ^ places)), 0 - a.e))
MongoRoundOf(a, places) ==
  IF a.m = <<>> THEN 0
  ELSE (IF a.neg THEN 0 - 1 ELSE 1)
         * DecimalQuantized(Decimal128Of(a), places, DecimalFloor(a, places))

\* DoubleDoubleSummation, the accumulator of $sum and $avg: a running pair
\* (sum, addend) of doubles.  addDouble(x) is
\*   (x, addend) = fastTwoSum(x, addend); (sum, x) = twoSum(sum, x); addend += x
\* with fastTwoSum(a, b): s = a + b, z = s - a, t = b - z giving (s, t) and
\* twoSum(a, b): s = a + b, a' = s - b, b' = s - a', t = (a - a') + (b - b')
\* giving (s, t), every operation rounded to a double
fastTwoSumLow(a, b, s) == DoubleSub(b, DoubleSub(s, a))
twoSumDeltas(a, b, aPrime, bPrime) == DoubleAdd(DoubleSub(a, aPrime), DoubleSub(b, bPrime))
twoSumPrimes(a, b, s, aPrime) == twoSumDeltas(a, b, aPrime, DoubleSub(s, aPrime))
twoSumLow(a, b, s) == twoSumPrimes(a, b, s, DoubleSub(s, b))
addToSum(sum, x, s, addend) == [sum |-> s, addend |-> DoubleAdd(addend, twoSumLow(sum, x, s))]
addFolded(acc, x, addend) == addToSum(acc.sum, x, DoubleAdd(acc.sum, x), addend)
addFast(acc, x, s) == addFolded(acc, s, fastTwoSumLow(x, acc.addend, s))
addDouble(acc, x) == addFast(acc, x, DoubleAdd(x, acc.addend))

\* the accumulator after the first n elements of ds
RECURSIVE DoubleDoubleSummation(_, _)
DoubleDoubleSummation(ds, n) ==
  IF n = 0 THEN [sum |-> DoubleZero, addend |-> DoubleZero]
  ELSE addDouble(DoubleDoubleSummation(ds, n - 1), ds[n])

\* getDouble(): the sum of a sequence of doubles is the high word
DoubleSum(ds) == DoubleDoubleSummation(ds, Len(ds)).sum


\* Math.round(num / den) for den > 0: nearest integer, halves towards +infinity.
MathRound(num, den) == (2 * num + den) \div (2 * den)

\* num / den lies halfway between two integers
Halfway(num, den) == (2 * num) % den = 0 /\ ((2 * num) \div den) % 2 = 1

\* MongoDB $round of a number to places decimals, as a whole number of units
\* of 10^-places.  The number is the double value, num / den units as a
\* decimal amount.  $round works on the double: when the decimal amount is
\* halfway between two units the double decides (0.015 is stored as
\* 0.01499999999999999944 and rounds to 0.01); any other amount is at least
\* 0.00001 / den away from halfway and rounds as the decimal amount does.
MongoRoundExact(num, den) ==
  LET q == num \div den
      r == num - q * den
  IN  IF 2 * r < den THEN q
      ELSE IF 2 * r > den THEN q + 1
      ELSE IF q % 2 = 0 THEN q ELSE q + 1
MongoRound(num, den, value, places) ==
  IF Halfway(num, den) THEN MongoRoundOf(value, places) ELSE MongoRoundExact(num, den)

RECURSIVE SumSeq(_)
SumSeq(s) == IF s = <<>> THEN 0 ELSE Head(s) + SumSeq(Tail(s))

(***************************************************************************)
(* fetchProfitableTokenGroupsWithMigration                                 *)
(***************************************************************************)
\* the $match stage built from the filters
matchQuery(filters, doc) ==
  LET minMaxSol == IF IsDefined(filters.minMaxSol) THEN Get(filters.minMaxSol) ELSE 0
  IN  /\ (minMaxSol > 0 => doc.maxSol >= minMaxSol)
      /\ (IsDefined(filters.startTime) => doc.mintTime >= Get(filters.startTime))
      /\ (IsDefined(filters.endTime) => doc.mintTime <= Get(filters.endTime))
      /\ ((IsDefined(filters.mintPattern) /\ Get(filters.mintPattern) # "")
            => doc.mintPattern = Get(filters.mintPattern))
      /\ (IsDefined(filters.unitPrice) => doc.unitPrice = Get(filters.unitPrice))
      /\ (IsDefined(filters.unitLimit) => doc.unitLimit = Get(filters.unitLimit))

\* the _id of the $group stage: only the enabled dimensions are present
groupIdAlwaysPattern(groupingCriteria, doc) ==
  [mintPattern |-> Some(doc.mintPattern),
   unitPrice   |-> IF groupingCriteria.unitPrice THEN Some(doc.unitPrice) ELSE Undefined,
   unitLimit   |-> IF groupingCriteria.unitLimit THEN Some(doc.unitLimit) ELSE Undefined,
   bundleSize  |-> IF groupingCriteria.postMintBundle THEN Some(doc.bundleSize) ELSE Undefined,
   totalBuySol |-> IF groupingCriteria.postMintBundle
                   THEN Some(MongoRound(doc.totalBuySol, E2,
                                        DoubleOfUnits(doc.totalBuySol), 2) * E2)
                   ELSE Undefined]
groupId(groupingCriteria, doc) ==
  [mintPattern |-> IF groupingCriteria.mintPattern THEN Some(doc.mintPattern) ELSE Undefined,
   unitPrice   |-> IF groupingCriteria.unitPrice THEN Some(doc.unitPrice) ELSE Undefined,
   unitLimit   |-> IF groupingCriteria.unitLimit THEN Some(doc.unitLimit) ELSE Undefined,
   bundleSize  |-> IF groupingCriteria.postMintBundle THEN Some(doc.bundleSize) ELSE Undefined,
   totalBuySol |-> IF groupingCriteria.postMintBundle
                   THEN Some(MongoRound(doc.totalBuySol, E2,
                                        DoubleOfUnits(doc.totalBuySol), 2) * E2)
                   ELSE Undefined]

\* the document pushed to a group's token list
pushToken(doc) ==
  [mint |-> doc.mint, mintTime |-> doc.mintTime, migrated |-> doc.migrated,
   maxSol |-> doc.maxSol, maxPrice |-> doc.maxPrice, mintSlotSol |-> doc.mintSlotSol,
   mintBuyAmt |-> doc.mintBuyAmt, mintPattern |-> doc.mintPattern,
   unitPrice |-> doc.unitPrice, unitLimit |-> doc.unitLimit,
   bundleSize |-> doc.bundleSize, totalBuySol |-> doc.totalBuySol]

\* the token summary of a returned group
mapToken(t) ==
  [mint |-> t.mint, mintTime |-> t.mintTime, migrated |-> t.migrated,
   maxSol |-> t.maxSol, maxPrice |-> t.maxPrice, mintSlotSol |-> t.mintSlotSol,
   mintBuyAmt |-> t.mintBuyAmt]

\* one document entering the $group stage: it joins the accumulator of its _id
groupStepDrop(groups, id, doc) ==
  IF \E i \in 1..Len(groups) : groups[i]._id = id
  THEN [i \in 1..Len(groups) |->
          IF groups[i]._id = id
          THEN [groups[i] EXCEPT !.totalTokens = @ + 1,
                                 !.migratedTokens = @ + (IF doc.migrated THEN 1 ELSE 0),
                                 !.totalMaxSol = @ + doc.maxSol]
          ELSE groups[i]]
  ELSE Append(groups, [_id |-> id, totalTokens |-> 1,
                       migratedTokens |-> IF doc.migrated THEN 1 ELSE 0,
                       totalMaxSol |-> doc.maxSol,
                       tokens |-> <<pushToken(doc)>>])

groupStepCountAll(groups, id, doc) ==
  IF \E i \in 1..Len(groups) : groups[i]._id = id
  THEN [i \in 1..Len(groups) |->
          IF groups[i]._id = id
          THEN [groups[i] EXCEPT !.totalTokens = @ + 1,
                                 !.migratedTokens = @ + 1,
                                 !.totalMaxSol = @ + doc.maxSol,
                                 !.tokens = Append(@, pushToken(doc))]
          ELSE groups[i]]
  ELSE Append(groups, [_id |-> id, totalTokens |-> 1,
                       migratedTokens |-> 1,
                       totalMaxSol |-> doc.maxSol,
                       tokens |-> <<pushToken(doc)>>])

groupStep(groups, id, doc) ==
  IF \E i \in 1..Len(groups) : groups[i]._id = id
  THEN [i \in 1..Len(groups) |->
          IF groups[i]._id = id
          THEN [groups[i] EXCEPT !.totalTokens = @ + 1,
                                 !.migratedTokens = @ + (IF doc.migrated THEN 1 ELSE 0),
                                 !.totalMaxSol = @ + doc.maxSol,
                                 !.tokens = Append(@, pushToken(doc))]
          ELSE groups[i]]
  ELSE Append(groups, [_id |-> id, totalTokens |-> 1,
                       migratedTokens |-> IF doc.migrated THEN 1 ELSE 0,
                       totalMaxSol |-> doc.maxSol,
                       tokens |-> <<pushToken(doc)>>])

\* $match followed by $group over the documents docs[lo..hi], in their order;
\* groups is the accumulator after docs[1..lo-1], which holds fewer than lo
\* groups.  Its length is looked at first, so that the accumulator is computed
\* before the documents after it are taken up.
RECURSIVE matchAndGroup(_, _, _, _, _, _)
matchAndGroup(docs, groupingCriteria, filters, lo, hi, groups) ==
  IF Len(groups) >= lo \/ lo > hi THEN groups
  ELSE IF lo = hi
  THEN (IF matchQuery(filters, docs[lo])
        THEN groupStep(groups, groupId(groupingCriteria, docs[lo]), docs[lo])
        ELSE groups)
  ELSE matchAndGroup(docs, groupingCriteria, filters, (lo + hi) \div 2 + 1, hi,
         matchAndGroup(docs, groupingCriteria, filters, lo, (lo + hi) \div 2, groups))

\* the doubles $sum and $avg of maxSol accumulate for a group
totalMaxSolDouble(g) == DoubleSum([i \in 1..Len(g.tokens) |-> DoubleOfUnits(g.tokens[i].maxSol)])
avgMaxSolDouble(g) == DoubleDivInt(totalMaxSolDouble(g), g.totalTokens)

\* the $project stage; migrationRate stays the unrounded quotient
\* migratedTokens / totalTokens * 100, kept as the fraction rateNum / rateDen
project(g) ==
  [groupIdentifier |-> g._id,
   totalTokens |-> g.totalTokens,
   migratedTokens |-> g.migratedTokens,
   rateNum |-> g.migratedTokens * 100,
   rateDen |-> g.totalTokens,
   profitableTokens |-> g.totalTokens,
   avgMaxSol |-> MongoRound(g.totalMaxSol, g.totalTokens * E4, avgMaxSolDouble(g), 4) * E4,
   totalMaxSol |-> MongoRound(g.totalMaxSol, E4, totalMaxSolDouble(g), 4) * E4,
   tokens |-> g.tokens]

\* $sort { migrationRate: -1, totalTokens: -1 }: a comes strictly before b
sortsBefore(a, b) ==
  \/ a.rateNum * b.rateDen > b.rateNum * a.rateDen
  \/ /\ a.rateNum * b.rateDen = b.rateNum * a.rateDen
     /\ a.totalTokens > b.totalTokens

\* every order of the set S the $sort stage may produce; the order of
\* documents that compare equal is not specified by the database
RECURSIVE sortedOrders(_)
sortedOrders(S) ==
  IF S = {} THEN {<<>>}
  ELSE UNION {{<<g>> \o rest : rest \in sortedOrders(S \ {g})} :
                g \in {x \in S : \A y \in S : ~sortsBefore(y, x)}}

\* TokenInfoModel.aggregate([...]): the possible result arrays
aggregate(docs, groupingCriteria, filters) ==
  LET groups == matchAndGroup(docs, groupingCriteria, filters, 1, Len(docs), <<>>)
  IN  sortedOrders({project(groups[i]) : i \in 1..Len(groups)})

\* the parts of the group key; each part stands for the string `name:value`
groupKeyPartsSwapped(groupIdentifier) ==
  (IF IsDefined(groupIdentifier.mintPattern) /\ Get(groupIdentifier.mintPattern) # ""
   THEN <<<<"pattern", Get(groupIdentifier.mintPattern)>>>> ELSE <<>>)
  \o (IF IsDefined(groupIdentifier.unitLimit)
      THEN <<<<"limit", Get(groupIdentifier.unitLimit)>>>> ELSE <<>>)
  \o (IF IsDefined(groupIdentifier.unitPrice)
      THEN <<<<"price", Get(groupIdentifier.unitPrice)>>>> ELSE <<>>)
  \o (IF IsDefined(groupIdentifier.bundleSize)
      THEN <<<<"bundle", Get(groupIdentifier.bundleSize), Get(groupIdentifier.totalBuySol)>>>>
      ELSE <<>>)
groupKeyParts(groupIdentifier) ==
  (IF IsDefined(groupIdentifier.mintPattern) /\ Get(groupIdentifier.mintPattern) # ""
   THEN <<<<"pattern", Get(groupIdentifier.mintPattern)>>>> ELSE <<>>)
  \o (IF IsDefined(groupIdentifier.unitPrice)
      THEN <<<<"price", Get(groupIdentifier.unitPrice)>>>> ELSE <<>>)
  \o (IF IsDefined(groupIdentifier.unitLimit)
      THEN <<<<"limit", Get(groupIdentifier.unitLimit)>>>> ELSE <<>>)
  \o (IF IsDefined(groupIdentifier.bundleSize)
      THEN <<<<"bundle", Get(groupIdentifier.bundleSize), Get(groupIdentifier.totalBuySol)>>>>
      ELSE <<>>)

\* groupKeyParts.join('|') || `group-${index}` (index is 0-based)
groupKeyFirstPart(groupIdentifier, index) ==
  IF groupKeyParts(groupIdentifier) # <<>> THEN <<Head(groupKeyParts(groupIdentifier))>>
  ELSE <<<<"group", index>>>>
groupKey(groupIdentifier, index) ==
  IF groupKeyParts(groupIdentifier) # <<>> THEN groupKeyParts(groupIdentifier)
  ELSE <<<<"group", index>>>>

\* rise of one token: maxSol - (mintSlotSol < 0.05 ? mintBuyAmt : mintSlotSol)
baseValueInclusive(t) == IF t.mintSlotSol <= MinSlotSol THEN t.mintBuyAmt ELSE t.mintSlotSol
baseValue(t) == IF t.mintSlotSol < MinSlotSol THEN t.mintBuyAmt ELSE t.mintSlotSol
riseSol(t) == t.maxSol - baseValue(t)

\* A number of the riseSols array is the double maxSol - baseValue; it is kept
\* as its two operands.  riseValue is the difference of the decimal amounts
\* and riseDouble the double the subtraction gives.  The two differ by less
\* than 0.000001 unit, so riseDouble is only consulted where that decides.
riseTerm(t) == [maxSol |-> t.maxSol, baseValue |-> baseValue(t)]
riseValue(r) == r.maxSol - r.baseValue
riseDouble(r) == DoubleSub(DoubleOfUnits(r.maxSol), DoubleOfUnits(r.baseValue))

\* the comparator (a, b) => a - b is not positive
riseLe(a, b) ==
  IF riseValue(a) # riseValue(b) THEN riseValue(a) < riseValue(b)
  ELSE a = b \/ DoubleCmp(riseDouble(a), riseDouble(b)) <= 0

\* riseSols.sort((a, b) => a - b): the sort is stable, so s[j] comes before
\* s[i] when it is smaller, or equal and earlier; an element moves to the
\* position that is the number of elements before it
riseBefore(s, j, i) ==
  IF riseLe(s[i], s[j]) THEN j < i /\ riseLe(s[j], s[i]) ELSE TRUE
SortRises(s) ==
  LET position == [i \in 1..Len(s) |->
                     Cardinality({j \in 1..Len(s) : j # i /\ riseBefore(s, j, i)})]
  IN  [k \in 1..Len(s) |-> s[CHOOSE i \in 1..Len(s) : position[i] = k - 1]]

\* the rises of a token list, sorted ascending (no rise is NaN for numeric fields)
riseSols(tokens) == SortRises([i \in 1..Len(tokens) |-> riseTerm(tokens[i])])

\* Math.floor(riseSols.length * (1 - winPercent / 100)), 0-based, computed in
\* doubles: 1 - 80 / 100 is 0.19999999999999996, and 5 times that is below 1.
\* When n * (100 - winPercent) / 100 is not an integer it is at least 0.01
\* away from one and the double product has the same floor.
percentileIndex(n, winPercent) ==
  IF (n * (100 - winPercent)) % 100 # 0 THEN (n * (100 - winPercent)) \div 100
  ELSE MathFloorOf(DoubleMul(DoubleOfInt(n),
         DoubleSub(DoubleOfInt(1), DoubleDivInt(DoubleOfInt(winPercent), 100))))

\* riseSols.length > 0 ? riseSols[percentileIndex] : 0 ; a read past the end of
\* the array gives undefined, which the later arithmetic turns into NaN
commonRiseSol(rises, winPercent) ==
  LET idx == percentileIndex(Len(rises), winPercent)
  IN  IF Len(rises) = 0 THEN [nan |-> FALSE, v |-> 0, term |-> [maxSol |-> 0, baseValue |-> 0]]
      ELSE IF idx >= 0 /\ idx < Len(rises)
      THEN [nan |-> FALSE, v |-> riseValue(rises[idx + 1]), term |-> rises[idx + 1]]
      ELSE NaN

\* Math.round(x * 10000) / 10000; the product is a double, so a rise that
\* ends in 5 units is rounded by where the double product falls: 0.00015 *
\* 10000 is 1.4999999999999998 and rounds to 1.  Any other rise is further
\* than 0.1 from a half and rounds as the decimal amount does.
round4(x) ==
  IF x.nan THEN NaN
  ELSE IF x.v % E4 # E4 \div 2 THEN Num(MathRound(x.v, E4) * E4)
  ELSE Num(MathRoundOf(DoubleMul(riseDouble(x.term), DoubleOfInt(10000))) * E4)

\* $multiply [$divide [migratedTokens, totalTokens], 100] as a double
migrationRateDouble(result) ==
  DoubleMul(DoubleOfRatio(result.migratedTokens, result.totalTokens), DoubleOfInt(100))

\* Math.round(migrationRate * 100) / 100, in hundredths; when the quotient is
\* an exact half of a hundredth the double product decides (23 of 160 gives
\* 1437.4999999999998), otherwise it rounds as the exact quotient does
roundedMigrationRate(result) ==
  IF (2 * result.rateNum * 100) % result.rateDen = 0
     /\ ((2 * result.rateNum * 100) \div result.rateDen) % 2 = 1
  THEN MathRoundOf(DoubleMul(migrationRateDouble(result), DoubleOfInt(100)))
  ELSE MathRound(result.rateNum * 100, result.rateDen)

\* results.map((result, index) => ...)
mapResult(result, index, winPercent) ==
  [groupKey |-> groupKey(result.groupIdentifier, index),
   groupIdentifier |-> result.groupIdentifier,
   totalTokens |-> result.totalTokens,
   migratedTokens |-> result.migratedTokens,
   migrationRate |-> roundedMigrationRate(result),
   profitableTokens |-> result.profitableTokens,
   avgMaxSol |-> result.avgMaxSol,
   totalMaxSol |-> result.totalMaxSol,
   commonRiseSol |-> round4(commonRiseSol(riseSols(result.tokens), winPercent)),
   tokens |-> [j \in 1..Len(result.tokens) |-> mapToken(result.tokens[j])]]

fetchProfitableTokenGroupsWithMigration(results, filters) ==
  LET winPercent == IF IsDefined(filters.winPercent) THEN Get(filters.winPercent)
                    ELSE DefaultWinPercent
  IN  [i \in 1..Len(results) |-> mapResult(results[i], i - 1, winPercent)]

(***************************************************************************)
(* findProfitableTokenGroups.  The numbers the pipeline computes are the   *)
(* doubles the server computes, operation by operation.                    *)
(***************************************************************************)
RECURSIVE GCD(_, _)
GCD(a, b) == IF b = 0 THEN a ELSE GCD(b, a % b)

\* an exact quotient num / den with den > 0, in lowest terms
Frac(num, den) ==
  LET g == GCD(Abs(num), den)
  IN  [num |-> num \div g, den |-> den \div g]

\* the day the query runs on, and the defaults of the options
Today == 10
DefaultMinRiseSol == 0
DefaultMinTokensInGroup == 2
DefaultLimit == 50
DefaultDaysBack == 3
OrDefault(o, d) == IF IsDefined(o) THEN Get(o) ELSE d

\* the multipliers of the threshold ladder, in tenths
Multipliers == <<3, 4, 5, 6, 7, 8, 9>>

Max2(a, b) == IF a >= b THEN a ELSE b
Min2(a, b) == IF a <= b THEN a ELSE b

\* the sequence s with its elements computed
Computed(s) == SubSeq(s, 1, Len(s))

\* first $match: non-empty pattern, created within daysBack days
profitMatch(doc, daysBack) ==
  /\ doc.mintPattern # ""
  /\ doc.createdAt >= Today - daysBack

\* $addFields buyPriceSol: the lower of mintSlotSol and firstSlotSol
buyPriceSol(doc) ==
  IF doc.mintSlotSol <= doc.firstSlotSol THEN doc.mintSlotSol ELSE doc.firstSlotSol

\* $addFields riseSol: $subtract [maxSol, buyPriceSol], a double: 0.7 - 0.4
\* is 0.29999999999999993
profitRiseSol(doc) == DoubleSub(DoubleOfUnits(doc.maxSol), DoubleOfUnits(buyPriceSol(doc)))

\* $match riseSol >= minRiseSol
riseReaches(rise, minRiseSol) == DoubleCmp(rise, DoubleOfUnits(minRiseSol)) >= 0

\* the _id of the $group stage
profitGroupId(groupByComputeUnits, doc) ==
  [mintPattern |-> doc.mintPattern,
   unitPrice |-> IF groupByComputeUnits THEN Some(doc.unitPrice) ELSE Undefined,
   unitLimit |-> IF groupByComputeUnits THEN Some(doc.unitLimit) ELSE Undefined]

\* the element $push adds to tokens
profitToken(doc, rise) ==
  [mint |-> doc.mint, riseSol |-> rise, maxSol |-> doc.maxSol,
   buyPriceSol |-> buyPriceSol(doc)]

\* one document entering the $group stage: the count and the pushed tokens
profitGroupStep(groups, id, token) ==
  IF \E i \in 1..Len(groups) : groups[i]._id = id
  THEN [i \in 1..Len(groups) |->
          IF groups[i]._id = id
          THEN [groups[i] EXCEPT !.totalTokens = @ + 1, !.tokens = Append(@, token)]
          ELSE groups[i]]
  ELSE Append(groups, [_id |-> id, totalTokens |-> 1, tokens |-> <<token>>])

\* a document through the first $match, the two $addFields, the second
\* $match and into the $group stage
profitDocStep(groups, groupByComputeUnits, minRiseSol, doc, rise) ==
  IF riseReaches(rise, minRiseSol)
  THEN profitGroupStep(groups, profitGroupId(groupByComputeUnits, doc), profitToken(doc, rise))
  ELSE groups

\* the stages up to $group over docs[i..]
RECURSIVE profitMatchAndGroup(_, _, _, _, _, _)
profitMatchAndGroup(docs, groupByComputeUnits, minRiseSol, daysBack, i, groups) ==
  IF i > Len(docs) \/ Len(groups) < 0 THEN groups
  ELSE profitMatchAndGroup(docs, groupByComputeUnits, minRiseSol, daysBack, i + 1,
         IF profitMatch(docs[i], daysBack)
         THEN profitDocStep(groups, groupByComputeUnits, minRiseSol, docs[i],
                            profitRiseSol(docs[i]))
         ELSE groups)

\* $max and $min of a sequence of doubles
DoubleMax(ds) == ds[CHOOSE i \in 1..Len(ds) : \A j \in 1..Len(ds) : DoubleCmp(ds[j], ds[i]) <= 0]
DoubleMin(ds) == ds[CHOOSE i \in 1..Len(ds) : \A j \in 1..Len(ds) : DoubleCmp(ds[j], ds[i]) >= 0]

\* the accumulators of the $group stage over the documents of one group:
\* $sum is the sum the accumulator holds and $avg is that sum divided by
\* the count
profitAccumulators(g, rises, totalRiseSol) ==
  [_id |-> g._id,
   totalTokens |-> g.totalTokens,
   avgRiseSol |-> DoubleDivInt(totalRiseSol, g.totalTokens),
   maxRiseSol |-> DoubleMax(rises),
   minRiseSol |-> DoubleMin(rises),
   avgMaxSol |->
     DoubleDivInt(DoubleSum([j \in 1..Len(g.tokens) |-> DoubleOfUnits(g.tokens[j].maxSol)]),
                  g.totalTokens),
   avgBuyPriceSol |->
     DoubleDivInt(DoubleSum([j \in 1..Len(g.tokens) |-> DoubleOfUnits(g.tokens[j].buyPriceSol)]),
                  g.totalTokens),
   totalRiseSol |-> totalRiseSol,
   tokens |-> g.tokens]
profitRises(g, rises) == profitAccumulators(g, rises, DoubleSum(rises))
profitGroup(g) == profitRises(g, Computed([j \in 1..Len(g.tokens) |-> g.tokens[j].riseSol]))

\* thresholdCandidates: $multiply [avgRiseSol, multiplier], the multiplier
\* being the double of the literal m / 10
thresholdCandidate(g, m) == DoubleMul(g.avgRiseSol, DoubleOfRatio(m, 10))

\* thresholdSimulations: isWin is $gte [riseSol, threshold]; profitLoss is
\* the threshold for a win, the rise for a loss of positive rise, else 0
isWin(token, threshold) == DoubleCmp(token.riseSol, threshold) >= 0
profitLoss(token, threshold) ==
  IF isWin(token, threshold) THEN threshold
  ELSE IF DoubleCmp(token.riseSol, DoubleZero) > 0 THEN token.riseSol ELSE DoubleZero
thresholdSimulation(g, threshold) ==
  [threshold |-> threshold,
   results |-> Computed([j \in 1..Len(g.tokens) |->
                 [isWin |-> isWin(g.tokens[j], threshold),
                  profitLoss |-> profitLoss(g.tokens[j], threshold)]])]

\* thresholdAnalysis: $size of the $filter of the results on isWin and on
\* $not isWin, $sum and $avg of their profitLoss
winCount(results) == Cardinality({j \in 1..Len(results) : results[j].isWin})
lossCountNoProfit(results) ==
  Cardinality({j \in 1..Len(results) : results[j].profitLoss = DoubleZero})
lossCount(results) == Cardinality({j \in 1..Len(results) : ~results[j].isWin})
thresholdTotals(sim, totalProfit) ==
  [threshold |-> sim.threshold,
   winCount |-> winCount(sim.results),
   lossCount |-> lossCount(sim.results),
   totalProfit |-> totalProfit,
   avgProfit |-> DoubleDivInt(totalProfit, Len(sim.results))]
thresholdAnalysis(sim) ==
  thresholdTotals(sim, DoubleSum([j \in 1..Len(sim.results) |-> sim.results[j].profitLoss]))

\* thresholdScores: winRate is $divide [winCount, totalTokens] and
\* profitabilityScore is $multiply [winRate, avgProfit]
thresholdRated(analysis, winRate) ==
  [threshold |-> analysis.threshold,
   winCount |-> analysis.winCount,
   lossCount |-> analysis.lossCount,
   winRate |-> winRate,
   totalProfit |-> analysis.totalProfit,
   avgProfit |-> analysis.avgProfit,
   profitabilityScore |-> DoubleMul(winRate, analysis.avgProfit)]
thresholdScore(analysis, totalTokens) ==
  thresholdRated(analysis, DoubleOfRatio(analysis.winCount, totalTokens))

\* the ladder of one group, stage by stage
thresholdScores(g) ==
  Computed([c \in 1..Len(Multipliers) |->
    thresholdScore(thresholdAnalysis(thresholdSimulation(g, thresholdCandidate(g, Multipliers[c]))),
                   g.totalTokens)])

\* $arrayElemAt [$sortArray { input: scores, sortBy: { field: -1 } }, 0]: the
\* sort is stable, so the first element is the earliest of the elements with
\* the largest key
firstBySortArrayUnsorted(scores, field) == scores[1]
firstBySortArray(scores, field) ==
  scores[CHOOSE c \in 1..Len(scores) :
           /\ \A d \in 1..Len(scores) : DoubleCmp(scores[d][field], scores[c][field]) <= 0
           /\ \A d \in 1..(c - 1) : DoubleCmp(scores[d][field], scores[c][field]) < 0]

\* riskLevel from the win rate of the optimal threshold: $lt against the
\* doubles of the literals 0.6 and 0.75
riskLevelInclusive(winRate) ==
  IF DoubleCmp(winRate, DoubleOfRatio(6, 10)) <= 0 THEN "HIGH"
  ELSE IF DoubleCmp(winRate, DoubleOfRatio(75, 100)) <= 0 THEN "MEDIUM"
  ELSE "LOW"
riskLevel(winRate) ==
  IF DoubleCmp(winRate, DoubleOfRatio(6, 10)) < 0 THEN "HIGH"
  ELSE IF DoubleCmp(winRate, DoubleOfRatio(75, 100)) < 0 THEN "MEDIUM"
  ELSE "LOW"

\* the $sort stage compares the sort field of two groups
sortsBelow(x, y, sortField) ==
  IF sortField = "totalTokens" THEN x.totalTokens < y.totalTokens
  ELSE DoubleCmp(x[sortField], y[sortField]) < 0

\* every order of the set S a descending $sort on sortField may produce
RECURSIVE profitSortedOrders(_, _)
profitSortedOrders(S, sortField) ==
  IF S = {} THEN {<<>>}
  ELSE UNION {{<<g>> \o rest : rest \in profitSortedOrders(S \ {g}, sortField)} :
                g \in {x \in S : \A y \in S : ~sortsBelow(x, y, sortField)}}

\* the first n elements of s
Take(s, n) == SubSeq(s, 1, Min2(n, Len(s)))

\* { $limit: limit }: the database takes a positive limit only and answers a
\* pipeline with any other limit by an error, so the aggregate call rejects
limitAccepted(limit) == limit > 0
LimitError == "the limit must be positive"

\* the final $project of one group, given its ladder and the three selected
\* candidates
profitSelected(g, scores, optimal, conservative, aggressive) ==
  [_id |-> g._id,
   mintPattern |-> g._id.mintPattern,
   unitPrice |-> g._id.unitPrice,
   unitLimit |-> g._id.unitLimit,
   totalTokens |-> g.totalTokens,
   avgRiseSol |-> g.avgRiseSol,
   maxRiseSol |-> g.maxRiseSol,
   minRiseSol |-> g.minRiseSol,
   avgMaxSol |-> g.avgMaxSol,
   avgBuyPriceSol |-> g.avgBuyPriceSol,
   totalRiseSol |-> g.totalRiseSol,
   profitabilityScore |-> DoubleMul(g.avgRiseSol, DoubleOfInt(g.totalTokens)),
   recommendedSellThreshold |-> optimal.threshold,
   recommendedWinRate |-> DoubleMul(optimal.winRate, DoubleOfInt(100)),
   recommendedWinCount |-> optimal.winCount,
   recommendedLossCount |-> optimal.lossCount,
   recommendedAvgProfit |-> optimal.avgProfit,
   recommendedTotalProfit |-> optimal.totalProfit,
   conservativeThreshold |-> conservative.threshold,
   conservativeWinRate |-> DoubleMul(conservative.winRate, DoubleOfInt(100)),
   conservativeWinCount |-> conservative.winCount,
   conservativeLossCount |-> conservative.lossCount,
   conservativeAvgProfit |-> conservative.avgProfit,
   aggressiveThreshold |-> aggressive.threshold,
   aggressiveWinRate |-> DoubleMul(aggressive.winRate, DoubleOfInt(100)),
   aggressiveWinCount |-> aggressive.winCount,
   aggressiveLossCount |-> aggressive.lossCount,
   aggressiveAvgProfit |-> aggressive.avgProfit,
   recommendedSellSol |-> DoubleAdd(g.avgBuyPriceSol, optimal.threshold),
   conservativeSellSol |-> DoubleAdd(g.avgBuyPriceSol, conservative.threshold),
   aggressiveSellSol |-> DoubleAdd(g.avgBuyPriceSol, aggressive.threshold),
   riskLevel |-> riskLevel(optimal.winRate),
   allThresholdOptions |-> scores,
   tokens |-> Take(g.tokens, 5)]

\* the three $sortArray selections
profitScored(g, scores) ==
  profitSelected(g, scores,
                 firstBySortArray(scores, "profitabilityScore"),
                 firstBySortArray(scores, "winRate"),
                 firstBySortArray(scores, "avgProfit"))

\* the stages from thresholdCandidates to $project for one group; the ladder
\* is computed once and the three selections read it
profitProject(g) ==
  CHOOSE projected \in {profitScored(g, scores) : scores \in {thresholdScores(g)}} : TRUE

\* TokenInfoModel.aggregate(pipeline): the possible result arrays, one for
\* every order the $sort stage may leave groups of equal sort field in
findProfitableTokenGroups(docs, options) ==
  LET groupByComputeUnits == OrDefault(options.groupByComputeUnits, FALSE)
      minRiseSol == OrDefault(options.minRiseSol, DefaultMinRiseSol)
      minTokensInGroup == OrDefault(options.minTokensInGroup, DefaultMinTokensInGroup)
      limit == OrDefault(options.limit, DefaultLimit)
      sortBy == OrDefault(options.sortBy, "avgRiseSol")
      daysBack == OrDefault(options.daysBack, DefaultDaysBack)
      sortField == IF sortBy = "totalTokens" THEN "totalTokens"
                   ELSE IF sortBy = "maxRiseSol" THEN "maxRiseSol" ELSE "avgRiseSol"
      groups == profitMatchAndGroup(docs, groupByComputeUnits, minRiseSol, daysBack, 1, <<>>)
      kept == {profitGroup(groups[i]) :
                 i \in {i \in 1..Len(groups) : groups[i].totalTokens >= minTokensInGroup}}
  IN  IF ~limitAccepted(limit) THEN {}
      ELSE {[k \in 1..Len(Take(order, limit)) |-> profitProject(order[k])] :
              order \in profitSortedOrders(kept, sortField)}

(***************************************************************************)
(* The record store and the calls made on the service.                     *)
(***************************************************************************)
Idle == [op |-> "idle", status |-> "idle"]

\* the value of the field name of the kind k, or fallback when k leaves it out
Field(k, name, fallback) == IF name \in DOMAIN k THEN k[name] ELSE fallback

\* a token document; _id and mint are the position of the document in the
\* collection
Token(mint, k) ==
  [_id |-> mint, mint |-> mint, mintTime |-> k.mintTime, migrated |-> k.migrated,
   maxSol |-> k.maxSol, maxPrice |-> Field(k, "maxPrice", 0),
   mintSlotSol |-> k.mintSlotSol,
   firstSlotSol |-> k.firstSlotSol, mintBuyAmt |-> k.mintBuyAmt,
   mintPattern |-> k.mintPattern, unitPrice |-> k.unitPrice,
   unitLimit |-> k.unitLimit, bundleSize |-> k.bundleSize,
   totalBuySol |-> k.totalBuySol, createdAt |-> k.createdAt,
   extended |-> Field(k, "extended", FALSE),
   lookupTable |-> Field(k, "lookupTable", FALSE),
   jito |-> Field(k, "jito", 0), bloxRoute |-> Field(k, "bloxRoute", 0),
   photon |-> Field(k, "photon", 0), axiom |-> Field(k, "axiom", 0),
   tracesLen |-> Field(k, "tracesLen", 0), tradesLen |-> Field(k, "tradesLen", 0),
   migrateTime |-> Field(k, "migrateTime", 0)]

Collection(kinds) == [i \in 1..Len(kinds) |-> Token(i, kinds[i])]

SeqsUpTo(S, n) == UNION {[1..m -> S] : m \in 0..n}

Kind(migrated, mintPattern, unitPrice, mintTime, maxSol, mintSlotSol, firstSlotSol, mintBuyAmt) ==
  [migrated |-> migrated, mintPattern |-> mintPattern, unitPrice |-> unitPrice,
   mintTime |-> mintTime, maxSol |-> maxSol, mintSlotSol |-> mintSlotSol,
   firstSlotSol |-> firstSlotSol, mintBuyAmt |-> mintBuyAmt,
   unitLimit |-> 0, bundleSize |-> 0, totalBuySol |-> 1000, createdAt |-> 9]

\* the documents the migration analysis is explored on
FetchKinds ==
  UNION {{Kind(m, "a", 0, 10, 100006, 10000, 10000, 0),
          Kind(m, "a", 1, 20, 250000, 1000, 1000, 50000),
          Kind(m, "b", 0, 30, 0, 20000, 20000, 0),
          Kind(m, "", 1, 20, 50000, 0, 0, 0)} : m \in BOOLEAN}

\* six tokens of one group with rises 0.2, 0.4, 1.9, 2.1, 3.8, 6.5 SOL (given
\* out of order), four of them migrated
ScenarioARises == <<380000, 20000, 650000, 40000, 210000, 190000>>
ScenarioA ==
  [i \in 1..6 |-> Kind(i <= 4, "a", 0, 10, ScenarioARises[i] + 10000, 10000, 10000, 0)]

\* 160 tokens of one group, 23 of them migrated: 14.375 %
ScenarioLarge ==
  [i \in 1..160 |-> Kind(i <= 23, "a", 0, 10, 100006, 10000, 10000, 0)]

\* one token whose maxSol, 0.00015 SOL, is halfway between two values of four
\* decimals, and whose totalBuySol, 0.015 SOL, is halfway between two of two
ScenarioHalfway ==
  <<[Kind(FALSE, "a", 0, 10, 15, 10000, 10000, 0) EXCEPT !.totalBuySol = 1500]>>

Criteria(p, u, l, b) ==
  [mintPattern |-> p, unitPrice |-> u, unitLimit |-> l, postMintBundle |-> b]

Filters(minMaxSol, winPercent) ==
  [minMaxSol |-> minMaxSol, startTime |-> Undefined, endTime |-> Undefined,
   mintPattern |-> Undefined, unitPrice |-> Undefined, unitLimit |-> Undefined,
   winPercent |-> winPercent]

FetchCriteria ==
  {Criteria(FALSE, FALSE, FALSE, FALSE), Criteria(TRUE, FALSE, FALSE, FALSE),
   Criteria(TRUE, TRUE, TRUE, TRUE)}

FetchFilters ==
  {Filters(m, w) : m \in {Undefined, Some(SOL)},
                   w \in {Undefined, Some(0), Some(50), Some(100)}}

\* the stages of the pipeline fetchProfitableTokenGroupsWithMigration passes
\* to TokenInfoModel.aggregate
fetchPipelineWithOut == <<"$match", "$group", "$project", "$sort", "$out">>
fetchPipeline == <<"$match", "$group", "$project", "$sort">>

\* the stages of the pipelines of findProfitableTokenGroups and
\* findMostProfitableTokens
profitPipeline ==
  <<"$match", "$addFields", "$addFields", "$match", "$group", "$match",
    "$addFields", "$addFields", "$addFields", "$addFields", "$addFields",
    "$sort", "$limit", "$project">>
tokensPipeline == <<"$addFields", "$addFields", "$match", "$sort", "$limit", "$project">>

\* the stages of the pipelines of getTokenStatsByMEVService,
\* getPatternFrequency and getTokenOverview
mevStatsPipeline == <<"$group">>
patternFrequencyPipeline == <<"$match", "$group", "$sort", "$limit">>
overviewPipeline == <<"$group">>

\* a command the services send to the collection: TokenInfoModel.aggregate
\* with a pipeline, or one of find, findOne and countDocuments
Aggregate(pipeline) == [method |-> "aggregate", pipeline |-> pipeline]
Query(method) == [method |-> method, pipeline |-> <<>>]
ReadMethods == {"find", "findOne", "countDocuments"}
WritingStages == {"$out", "$merge"}

\* the command writes to the collection: an aggregate does through a $out or
\* $merge stage, every method other than the reading ones does
writes(command) ==
  IF command.method = "aggregate"
  THEN \E i \in 1..Len(command.pipeline) : command.pipeline[i] \in WritingStages
  ELSE command.method \notin ReadMethods

\* the collection after the command answered with results: a writing stage
\* puts the documents of its result in the place of the collection
collectionAfter(docs, command, results) == IF writes(command) THEN results ELSE docs

\* a caller invokes fetchProfitableTokenGroupsWithMigration with arguments
\* drawn from the given sets; the call is suspended on the aggregate query
FetchCallOn(criteria, filterSet) ==
  /\ call.status # "pending"
  /\ \E groupingCriteria \in criteria, filters \in filterSet :
       call' = [op |-> "fetchProfitableTokenGroupsWithMigration", status |-> "pending",
                groupingCriteria |-> groupingCriteria, filters |-> filters]
  /\ UNCHANGED store

FetchCall == FetchCallOn(FetchCriteria, FetchFilters)

\* the aggregate query answers and the call returns the mapped groups
FetchReturn ==
  /\ call.op = "fetchProfitableTokenGroupsWithMigration"
  /\ call.status = "pending"
  /\ \E results \in aggregate(store, call.groupingCriteria, call.filters) :
       /\ call' = [call EXCEPT !.status = "resolved"] @@
                  [value |-> fetchProfitableTokenGroupsWithMigration(results, call.filters)]
       /\ store' = collectionAfter(store, Aggregate(fetchPipeline), results)

FetchInit ==
  /\ store \in {Collection(ks) : ks \in SeqsUpTo(FetchKinds, MaxRecords)
                         \cup {ScenarioA, ScenarioLarge, ScenarioHalfway}}
  /\ call = Idle

FetchNext == FetchCall \/ FetchReturn

SpecFetch == FetchInit /\ [][FetchNext]_vars

Fetched == call.op = "fetchProfitableTokenGroupsWithMigration" /\ call.status = "resolved"

\* an operation awaits fetchProfitableTokenGroupsWithMigration: the aggregate
\* query answers and the fetch returns its groups; the operation that awaits
\* them resumes in a later step
AwaitedFetch ==
  /\ "awaited" \in DOMAIN call
  /\ call.status = "pending"
  /\ call.awaited.status = "pending"
  /\ \E results \in aggregate(store, call.groupingCriteria, call.filters) :
       /\ call' = [call EXCEPT !.awaited =
                     [status |-> "fulfilled",
                      value |-> fetchProfitableTokenGroupsWithMigration(results, call.filters)]]
       /\ store' = collectionAfter(store, Aggregate(fetchPipeline), results)

(***************************************************************************)
(* The record filter explored on every combination of predicates.          *)
(***************************************************************************)
FilterKind(mintTime, maxSol, mintPattern, unitPrice, unitLimit) ==
  [migrated |-> FALSE, mintPattern |-> mintPattern, unitPrice |-> unitPrice,
   mintTime |-> mintTime, maxSol |-> maxSol, mintSlotSol |-> 10000,
   firstSlotSol |-> 10000, mintBuyAmt |-> 0,
   unitLimit |-> unitLimit, bundleSize |-> 0, totalBuySol |-> 0, createdAt |-> 9]

FilterKinds ==
  {FilterKind(10, 50000, "a", 0, 0), FilterKind(20, SOL, "a", 1, 0),
   FilterKind(30, 2 * SOL, "", 0, 1), FilterKind(20, 2 * SOL, "b", 1, 1)}

AllFilters(minMaxSol, startTime, endTime, mintPattern, unitPrice, unitLimit, winPercent) ==
  [minMaxSol |-> minMaxSol, startTime |-> startTime, endTime |-> endTime,
   mintPattern |-> mintPattern, unitPrice |-> unitPrice, unitLimit |-> unitLimit,
   winPercent |-> winPercent]

FilterFilters ==
  {AllFilters(m, s, e, p, u, l, Undefined) :
     m \in {Undefined, Some(0), Some(SOL)},
     s \in {Undefined, Some(20)},
     e \in {Undefined, Some(20)},
     p \in {Undefined, Some(""), Some("a")},
     u \in {Undefined, Some(0)},
     l \in {Undefined, Some(1)}}

FilterCall == FetchCallOn({Criteria(TRUE, FALSE, FALSE, FALSE)}, FilterFilters)

FilterInit ==
  /\ store \in {Collection(ks) : ks \in SeqsUpTo(FilterKinds, MaxRecords)}
  /\ call = Idle

FilterNext == FilterCall \/ FetchReturn

SpecFilter == FilterInit /\ [][FilterNext]_vars

(***************************************************************************)
(* The key composer explored on grouping criteria whose flags are given in *)
(* every order.                                                            *)
(***************************************************************************)
Dimensions == {"mintPattern", "unitPrice", "unitLimit", "postMintBundle"}

\* the object literal { flags[1]: true, flags[2]: true, ... } as the code
\* reads it: a property that is not given is undefined, hence falsy
criteriaFromFlags(flags) ==
  [d \in Dimensions |-> \E i \in 1..Len(flags) : flags[i] = d]

\* the lists of distinct dimension names, in every order
FlagOrders ==
  UNION {{f \in [1..m -> Dimensions] : \A i \in 1..m : \A j \in 1..m : f[i] = f[j] => i = j} :
         m \in 0..Cardinality(Dimensions)}

KeyKind(mintPattern, unitPrice, unitLimit, bundleSize, totalBuySol) ==
  [migrated |-> FALSE, mintPattern |-> mintPattern, unitPrice |-> unitPrice,
   mintTime |-> 10, maxSol |-> SOL, mintSlotSol |-> 10000,
   firstSlotSol |-> 10000, mintBuyAmt |-> 0,
   unitLimit |-> unitLimit, bundleSize |-> bundleSize, totalBuySol |-> totalBuySol,
   createdAt |-> 9]

\* total buy volumes 0.015, 0.02499 and 0.025 SOL round to 0.01, 0.02 and
\* 0.03 SOL: the doubles nearest 0.015 and 0.025 lie below and above the half
KeyKinds ==
  {KeyKind("a", 0, 0, 1, 1500), KeyKind("a", 0, 1, 1, 2499),
   KeyKind("", 1, 0, 1, 2500), KeyKind("b", 1, 1, 2, 1400),
   KeyKind("a|limit:1", 0, 1, 1, 1500)}

KeyCall ==
  /\ call.status # "pending"
  /\ \E flags \in FlagOrders :
       call' = [op |-> "fetchProfitableTokenGroupsWithMigration", status |-> "pending",
                groupingCriteria |-> criteriaFromFlags(flags),
                filters |-> Filters(Undefined, Undefined), given |-> flags]
  /\ UNCHANGED store

KeyInit ==
  /\ store \in {Collection(ks) : ks \in SeqsUpTo(KeyKinds, MaxRecords)}
  /\ call = Idle

KeyNext == KeyCall \/ FetchReturn

SpecKey == KeyInit /\ [][KeyNext]_vars

(***************************************************************************)
(* The rise derivation explored around the 0.05 SOL baseline limit, with   *)
(* win percentages inside and outside [0, 100].                            *)
(***************************************************************************)
RiseKinds ==
  {Kind(FALSE, "a", 0, 10, 100006, s, s, b) : s \in {0, 4999, 5000, 10000}, b \in {0, 50000}}
  \cup {Kind(TRUE, "a", 0, 10, 0, 10000, 10000, 0)}

RiseWinPercents == {Undefined, Some(50), Some(100), Some(150), Some(0 - 10)}

RiseCall ==
  /\ call.status # "pending"
  /\ \E w \in RiseWinPercents :
       call' = [op |-> "fetchProfitableTokenGroupsWithMigration", status |-> "pending",
                groupingCriteria |-> Criteria(FALSE, FALSE, FALSE, FALSE),
                filters |-> Filters(Undefined, w)]
  /\ UNCHANGED store

RiseInit ==
  /\ store \in {Collection(ks) : ks \in SeqsUpTo(RiseKinds, MaxRecords)}
  /\ call = Idle

RiseNext == RiseCall \/ FetchReturn

SpecRise == RiseInit /\ [][RiseNext]_vars

(***************************************************************************)
(* Calls of findProfitableTokenGroups.                                     *)
(***************************************************************************)
ProfitKind(mintPattern, unitPrice, maxSol, mintSlotSol, firstSlotSol, createdAt) ==
  [migrated |-> FALSE, mintPattern |-> mintPattern, unitPrice |-> unitPrice,
   mintTime |-> 10, maxSol |-> maxSol, mintSlotSol |-> mintSlotSol,
   firstSlotSol |-> firstSlotSol, mintBuyAmt |-> 0,
   unitLimit |-> 0, bundleSize |-> 0, totalBuySol |-> 0, createdAt |-> createdAt]

\* recent tokens with a pattern, of rise 0, 1, 4 and -2 SOL
ProfitKindList ==
  <<ProfitKind("a", 0, 1 * SOL, 1 * SOL, 2 * SOL, 9),
    ProfitKind("a", 1, 2 * SOL, 2 * SOL, 1 * SOL, 9),
    ProfitKind("a", 0, 5 * SOL, 1 * SOL, 1 * SOL, 9),
    ProfitKind("a", 0, 0, 2 * SOL, 3 * SOL, 8),
    ProfitKind("b", 1, 2 * SOL, 1 * SOL, 1 * SOL, 7)>>
ProfitKinds == {ProfitKindList[i] : i \in 1..Len(ProfitKindList)}

\* the sequences of at most n elements of list that keep the order of list
OrderedSeqsUpTo(list, n) ==
  UNION {{[i \in 1..m |-> list[f[i]]] :
            f \in {f \in [1..m -> 1..Len(list)] :
                     \A i \in 1..m : \A j \in 1..m : i < j => f[i] <= f[j]}} :
         m \in 0..n}

\* two tokens of rises 0.7 - 0.4 and 2.7 - 1 SOL, whose average is 1 SOL: the
\* first rise is the double 0.29999999999999993, below the candidate 0.3;
\* three tokens bought at 1 SOL of rises 0.1, 0.2 and 0.7 SOL; three tokens of
\* rises 0.4 - 0.1, 0 - 0.3 and 1 - 1 SOL, whose average is 0 while the
\* doubles 0.30000000000000004, -0.3 and 0 have a positive average
InexactRises ==
  {<<ProfitKind("a", 0, 70000, 40000, 40000, 9),
     ProfitKind("a", 0, 270000, 1 * SOL, 1 * SOL, 9)>>,
   <<ProfitKind("a", 0, 110000, 1 * SOL, 1 * SOL, 9),
     ProfitKind("a", 0, 120000, 1 * SOL, 1 * SOL, 9),
     ProfitKind("a", 0, 170000, 1 * SOL, 1 * SOL, 9)>>,
   <<ProfitKind("a", 0, 40000, 10000, 10000, 9),
     ProfitKind("a", 0, 0, 30000, 30000, 9),
     ProfitKind("a", 0, 1 * SOL, 1 * SOL, 1 * SOL, 9)>>}

\* tokens without a pattern and tokens older than the window
ExcludedKinds ==
  {ProfitKind("", 0, 5 * SOL, 1 * SOL, 1 * SOL, 9),
   ProfitKind("a", 0, 5 * SOL, 1 * SOL, 1 * SOL, 2)}

Options(groupByComputeUnits, minRiseSol, minTokensInGroup, limit, sortBy) ==
  [groupByComputeUnits |-> groupByComputeUnits, minRiseSol |-> minRiseSol,
   minTokensInGroup |-> minTokensInGroup, limit |-> limit, sortBy |-> sortBy,
   daysBack |-> Undefined]

ProfitOptions ==
  {Options(Undefined, Undefined, Undefined, Undefined, Undefined),
   Options(Undefined, Some(-3 * SOL), Some(1), Undefined, Undefined),
   Options(Some(TRUE), Some(-3 * SOL), Undefined, Some(1), Some("totalTokens")),
   Options(Undefined, Undefined, Some(1), Some(1), Some("maxRiseSol")),
   Options(Undefined, Undefined, Some(1), Some(0), Undefined)}

\* a caller invokes findProfitableTokenGroups; the call is suspended on the
\* aggregate query
ProfitCall ==
  /\ call.status # "pending"
  /\ \E options \in ProfitOptions :
       call' = [op |-> "findProfitableTokenGroups", status |-> "pending",
                options |-> options]
  /\ UNCHANGED store

\* the aggregate query answers and the call returns its result
ProfitReturn ==
  /\ call.op = "findProfitableTokenGroups"
  /\ call.status = "pending"
  /\ \E value \in findProfitableTokenGroups(store, call.options) :
       /\ call' = [call EXCEPT !.status = "resolved"] @@ [value |-> value]
       /\ store' = collectionAfter(store, Aggregate(profitPipeline), value)

\* the aggregate query is refused for its $limit and the call rejects
ProfitRejects ==
  /\ call.op = "findProfitableTokenGroups"
  /\ call.status = "pending"
  /\ ~limitAccepted(OrDefault(call.options.limit, DefaultLimit))
  /\ call' = [call EXCEPT !.status = "rejected"] @@ [error |-> LimitError]
  /\ UNCHANGED store

\* collections of every order up to MaxShuffled documents; larger ones, up to
\* MaxProfitRecords documents, in one order per multiset of documents
ProfitInit ==
  /\ store \in {Collection(ks) :
                  ks \in OrderedSeqsUpTo(ProfitKindList, MaxProfitRecords)
                         \cup SeqsUpTo(ProfitKinds \cup ExcludedKinds, MaxShuffled)
                         \cup InexactRises}
  /\ call = Idle

ProfitNext == ProfitCall \/ ProfitReturn \/ ProfitRejects

SpecProfit == ProfitInit /\ [][ProfitNext]_vars

Profited == call.op = "findProfitableTokenGroups" /\ call.status = "resolved"

(***************************************************************************)
(* getTopMigratingGroups and the ranking of both engines.                  *)
(***************************************************************************)
DefaultTopLimit == 10

\* Array.prototype.slice(0, end): a negative end counts from the end of s
slice0(s, end) ==
  SubSeq(s, 1, IF end < 0 THEN Max2(Len(s) + end, 0) ELSE Min2(end, Len(s)))

AtLeastTwo(g) == g.totalTokens >= 2

\* results.filter(g => g.totalTokens >= 2).slice(0, limit)
getTopMigratingGroups(results, limit) == slice0(SelectSeq(results, AtLeastTwo), limit)

RankKind(migrated, mintPattern, maxSol) ==
  [ProfitKind(mintPattern, 0, maxSol, 1 * SOL, 1 * SOL, 9) EXCEPT !.migrated = migrated]

\* recent tokens of three patterns, migrated or not, of rise 1, 4, 1, 2 and
\* 3 SOL
RankKindList ==
  <<RankKind(TRUE, "a", 2 * SOL), RankKind(FALSE, "a", 5 * SOL),
    RankKind(TRUE, "b", 2 * SOL), RankKind(FALSE, "b", 3 * SOL),
    RankKind(FALSE, "c", 4 * SOL)>>

TopLimits == {Undefined, Some(0), Some(1), Some(2), Some(0 - 1)}

RankOptions ==
  {Options(Undefined, Undefined, Undefined, Some(1), Some("totalTokens")),
   Options(Undefined, Undefined, Some(1), Undefined, Some("maxRiseSol")),
   Options(Undefined, Undefined, Some(1), Some(2), Undefined)}

TopCall ==
  /\ call.status # "pending"
  /\ \E limit \in TopLimits :
       call' = [op |-> "getTopMigratingGroups", status |-> "pending",
                groupingCriteria |-> Criteria(TRUE, FALSE, FALSE, FALSE),
                filters |-> Filters(Undefined, Undefined), limit |-> limit,
                awaited |-> [status |-> "pending"]]
  /\ UNCHANGED store

\* getTopMigratingGroups resumes with the groups of the awaited fetch and
\* returns the kept ones
TopReturn ==
  /\ call.op = "getTopMigratingGroups"
  /\ call.status = "pending"
  /\ call.awaited.status = "fulfilled"
  /\ call' = [call EXCEPT !.status = "resolved"] @@
             [value |-> getTopMigratingGroups(call.awaited.value,
                                              OrDefault(call.limit, DefaultTopLimit))]
  /\ UNCHANGED store

RankProfitCall ==
  /\ call.status # "pending"
  /\ \E options \in RankOptions :
       call' = [op |-> "findProfitableTokenGroups", status |-> "pending",
                options |-> options]
  /\ UNCHANGED store

RankInit ==
  /\ store \in {Collection(ks) : ks \in OrderedSeqsUpTo(RankKindList, MaxProfitRecords)}
  /\ call = Idle

RankNext == TopCall \/ AwaitedFetch \/ TopReturn \/ RankProfitCall \/ ProfitReturn

SpecRank == RankInit /\ [][RankNext]_vars

Topped == call.op = "getTopMigratingGroups" /\ call.status = "resolved"

(***************************************************************************)
(* getGroupingSummary.  Rates and averages are in hundredths, the unit of  *)
(* their 2-decimal rounding.  The collections explored keep the migrated   *)
(* tokens in one pattern: on them every quotient the code rounds is far    *)
(* enough from a half, or exactly representable, for the floating-point    *)
(* result to be the exact one.                                             *)
(***************************************************************************)
\* groups.reduce((sum, g) => sum + g[field], 0)
RECURSIVE reduceSum(_, _)
reduceSum(groups, field) ==
  IF groups = <<>> THEN 0 ELSE Head(groups)[field] + reduceSum(Tail(groups), field)

\* groups.reduce((sum, g) => sum + g.migrationRate, 0): the doubles are
\* added from left to right
RECURSIVE reduceRates(_, _)
reduceRates(groups, sum) ==
  IF groups = <<>> THEN sum
  ELSE reduceRates(Tail(groups),
                   DoubleAdd(sum, DoubleOfRatio(Head(groups).migrationRate, 100)))


\* Math.round(value * 100), where value is a double that stands for
\* num / den hundredths: the double product decides when num / den is an
\* exact half, otherwise it rounds as the exact quotient does
roundHundredths(num, den, value) ==
  IF Halfway(num, den) THEN MathRoundOf(DoubleMul(value, DoubleOfInt(100)))
  ELSE MathRound(num, den)

getGroupingSummary(groups) ==
  LET totalGroups == Len(groups)
      totalTokens == reduceSum(groups, "totalTokens")
      totalMigrated == reduceSum(groups, "migratedTokens")
  IN  [totalGroups |-> totalGroups,
       totalTokens |-> totalTokens,
       totalMigrated |-> totalMigrated,
       overallMigrationRate |->
         IF totalTokens > 0
         THEN roundHundredths(totalMigrated * 100 * 100, totalTokens,
                DoubleMul(DoubleOfRatio(totalMigrated, totalTokens), DoubleOfInt(100)))
         ELSE 0,
       avgTokensPerGroup |->
         IF totalGroups > 0
         THEN roundHundredths(totalTokens * 100, totalGroups,
                DoubleOfRatio(totalTokens, totalGroups))
         ELSE 0,
       avgMigrationRatePerGroup |->
         IF totalGroups > 0
         THEN roundHundredths(reduceSum(groups, "migrationRate"), totalGroups,
                DoubleDivInt(reduceRates(groups, DoubleOfInt(0)), totalGroups))
         ELSE 0]

\* tokens of three patterns, migrated or not in the patterns "a" and "b";
\* those of pattern "c" peak below 1 SOL
SummaryKindList ==
  <<Kind(TRUE, "a", 0, 10, 2 * SOL, 10000, 10000, 0),
    Kind(FALSE, "a", 0, 10, 3 * SOL, 10000, 10000, 0),
    Kind(TRUE, "b", 0, 10, 2 * SOL, 10000, 10000, 0),
    Kind(FALSE, "b", 0, 10, 2 * SOL, 10000, 10000, 0),
    Kind(FALSE, "c", 0, 10, 50000, 10000, 10000, 0)>>

SummaryCriteria == {Criteria(FALSE, FALSE, FALSE, FALSE), Criteria(TRUE, FALSE, FALSE, FALSE)}
SummaryFilters == {Filters(Undefined, Undefined), Filters(Some(SOL), Undefined)}

SummaryCall ==
  /\ call.status # "pending"
  /\ \E groupingCriteria \in SummaryCriteria, filters \in SummaryFilters :
       call' = [op |-> "getGroupingSummary", status |-> "pending",
                groupingCriteria |-> groupingCriteria, filters |-> filters,
                awaited |-> [status |-> "pending"]]
  /\ UNCHANGED store

\* getGroupingSummary resumes with the groups of the awaited fetch and
\* returns their summary
SummaryReturn ==
  /\ call.op = "getGroupingSummary"
  /\ call.status = "pending"
  /\ call.awaited.status = "fulfilled"
  /\ call' = [call EXCEPT !.status = "resolved"] @@
             [value |-> getGroupingSummary(call.awaited.value)]
  /\ UNCHANGED store

SummaryInit ==
  /\ store \in {Collection(ks) : ks \in OrderedSeqsUpTo(SummaryKindList, MaxProfitRecords)}
  /\ call = Idle

SummaryNext == SummaryCall \/ AwaitedFetch \/ SummaryReturn

SpecSummary == SummaryInit /\ [][SummaryNext]_vars

Summarised == call.op = "getGroupingSummary" /\ call.status = "resolved"

(***************************************************************************)
(* The fetch explored on collections in every order of their records.      *)
(***************************************************************************)
\* tokens with the empty pattern, and of patterns "a" and "b"
OrderKinds ==
  {Kind(FALSE, "", 0, 10, 2 * SOL, 10000, 10000, 0),
   Kind(FALSE, "a", 0, 10, 3 * SOL, 10000, 10000, 0),
   Kind(TRUE, "a", 0, 10, 100006, 1000, 1000, 50000),
   Kind(FALSE, "b", 0, 10, 2 * SOL, 20000, 20000, 0)}

OrderCriteria == {Criteria(FALSE, FALSE, FALSE, FALSE), Criteria(TRUE, FALSE, FALSE, FALSE)}
OrderFilters == {Filters(Undefined, Undefined), Filters(Undefined, Some(50))}

OrderCall == FetchCallOn(OrderCriteria, OrderFilters)

OrderInit ==
  /\ store \in {Collection(ks) : ks \in SeqsUpTo(OrderKinds, MaxRecords)}
  /\ call = Idle

OrderNext == OrderCall \/ FetchReturn

SpecOrder == OrderInit /\ [][OrderNext]_vars

(***************************************************************************)
(* compareTimePeriods: two getGroupingSummary calls started together with  *)
(* Promise.all.  Each call has its own locals (filters, groups, value);    *)
(* its awaited fetch and the computation of its summary are steps that     *)
(* interleave freely with the steps of the other call.  Times are in       *)
(* seconds.                                                                *)
(***************************************************************************)
Day == 86400
Now == 20 * Day
DefaultPeriod1Days == 7
DefaultPeriod2Days == 14

period1Start(period1Days) == Now - period1Days * Day
period2Start(period2Days) == Now - period2Days * Day

\* the filters of the two calls
recentFilters(period1Days) ==
  AllFilters(Some(SOL), Some(period1Start(period1Days)), Undefined,
             Undefined, Undefined, Undefined, Undefined)
olderFilters(period1Days, period2Days) ==
  AllFilters(Some(SOL), Some(period2Start(period2Days)), Some(period1Start(period1Days)),
             Undefined, Undefined, Undefined, Undefined)

Callers == {"recent", "older"}
Other(who) == IF who = "recent" THEN "older" ELSE "recent"

\* const groups = await this.fetchProfitableTokenGroupsWithMigration(...):
\* the groups a summary call computes on are the ones its own fetch returned
awaitedGroupsShared(c, who) ==
  IF c[Other(who)].status # "pending" THEN c[Other(who)].groups ELSE c[who].groups
awaitedGroups(c, who) == c[who].groups

\* tokens minted 3, 7, 10 and 20 days ago; 7 days is the default boundary
\* between the two periods
CompareKinds ==
  {Kind(TRUE, "a", 0, Now - 3 * Day, 2 * SOL, 10000, 10000, 0),
   Kind(FALSE, "a", 0, Now - 7 * Day, 2 * SOL, 10000, 10000, 0),
   Kind(FALSE, "b", 0, Now - 10 * Day, 2 * SOL, 10000, 10000, 0),
   Kind(FALSE, "b", 0, Now - 7 * Day, 50000, 10000, 10000, 0),
   Kind(FALSE, "a", 0, Now - 20 * Day, 3 * SOL, 10000, 10000, 0)}

ComparePeriods == {Undefined, Some(10)}

\* compareTimePeriods starts both summary calls; each runs up to its await
CompareCall ==
  /\ call.status # "pending"
  /\ \E p1 \in ComparePeriods, p2 \in {Undefined} :
       LET period1Days == OrDefault(p1, DefaultPeriod1Days)
           period2Days == OrDefault(p2, DefaultPeriod2Days)
       IN  call' = [op |-> "compareTimePeriods", status |-> "pending",
                    period1Days |-> period1Days, period2Days |-> period2Days,
                    recent |-> [status |-> "pending",
                                groupingCriteria |-> Criteria(TRUE, FALSE, FALSE, FALSE),
                                filters |-> recentFilters(period1Days)],
                    older |-> [status |-> "pending",
                               groupingCriteria |-> Criteria(TRUE, FALSE, FALSE, FALSE),
                               filters |-> olderFilters(period1Days, period2Days)]]
  /\ UNCHANGED store

\* the aggregate query of one of the calls answers and its fetch returns
SummaryFetch ==
  /\ call.op = "compareTimePeriods"
  /\ call.status = "pending"
  /\ \E who \in Callers :
       /\ call[who].status = "pending"
       /\ \E results \in aggregate(store, call[who].groupingCriteria, call[who].filters) :
            /\ call' = [call EXCEPT ![who] =
                          [@ EXCEPT !.status = "fetched"] @@
                          [groups |-> fetchProfitableTokenGroupsWithMigration(
                                        results, call[who].filters)]]
            /\ store' = collectionAfter(store, Aggregate(fetchPipeline), results)

\* one of the calls resumes after its await and computes its summary
SummaryCompute ==
  /\ call.op = "compareTimePeriods"
  /\ call.status = "pending"
  /\ \E who \in Callers :
       /\ call[who].status = "fetched"
       /\ call' = [call EXCEPT ![who] =
                     [@ EXCEPT !.status = "resolved"] @@
                     [value |-> getGroupingSummary(awaitedGroups(call, who))]]
  /\ UNCHANGED store

\* a value in hundredths that Math.round(x * 100) / 100 returned, as the
\* double that division gives
roundedDouble(hundredths) == DoubleOfRatio(hundredths, 100)

\* `Last ${period1Days} days` and `${period2Days} to ${period1Days} days ago`
recentPeriod(period1Days) == "Last " \o ToString(period1Days) \o " days"
olderPeriod(period1Days, period2Days) ==
  ToString(period2Days) \o " to " \o ToString(period1Days) \o " days ago"

\* Promise.all resolves and compareTimePeriods returns each summary with
\* its period; an improvement is the difference of two doubles, unrounded
CompareReturn ==
  /\ call.op = "compareTimePeriods"
  /\ call.status = "pending"
  /\ call.recent.status = "resolved"
  /\ call.older.status = "resolved"
  /\ call' = [call EXCEPT !.status = "resolved"] @@
             [value |->
                [recent |-> [period |-> recentPeriod(call.period1Days)] @@ call.recent.value,
                 older |-> [period |-> olderPeriod(call.period1Days, call.period2Days)] @@
                           call.older.value,
                 improvement |->
                   [migrationRate |->
                      DoubleSub(roundedDouble(call.recent.value.overallMigrationRate),
                                roundedDouble(call.older.value.overallMigrationRate)),
                    tokensPerGroup |->
                      DoubleSub(roundedDouble(call.recent.value.avgTokensPerGroup),
                                roundedDouble(call.older.value.avgTokensPerGroup))]]]
  /\ UNCHANGED store

CompareInit ==
  /\ store \in {Collection(ks) : ks \in SeqsUpTo(CompareKinds, MaxRecords)}
  /\ call = Idle

CompareNext == CompareCall \/ SummaryFetch \/ SummaryCompute \/ CompareReturn

SpecCompare == CompareInit /\ [][CompareNext]_vars

Comparing == call.op = "compareTimePeriods"
Compared == call.op = "compareTimePeriods" /\ call.status = "resolved"

(***************************************************************************)
(* The four engine operations with an aggregate query that may fail.  The  *)
(* query is awaited by fetchProfitableTokenGroupsWithMigration or by       *)
(* findProfitableTokenGroups; getTopMigratingGroups and getGroupingSummary *)
(* await the fetch.  None of them has a try/catch or a loop: the rejection *)
(* of an awaited promise is the rejection of the function that awaits it.  *)
(***************************************************************************)
EngineOps ==
  {"fetchProfitableTokenGroupsWithMigration", "getTopMigratingGroups",
   "getGroupingSummary", "findProfitableTokenGroups"}

\* the operations that await the fetch
AwaitingFetch == {"getTopMigratingGroups", "getGroupingSummary"}

Errors == {"MongoNetworkError", "MongoServerError"}

FailKinds ==
  {RankKind(TRUE, "a", 2 * SOL), RankKind(FALSE, "a", 5 * SOL), RankKind(FALSE, "b", 3 * SOL)}

\* what an await of a rejected promise throws
thrown(error) == error

\* TokenInfoModel.aggregate(...) is called: one more query is sent and its
\* promise is pending
aggregateIssued(c) == [c EXCEPT !.queries = @ + 1, !.aggregate = [status |-> "pending"]]

\* await TokenInfoModel.aggregate(...) throws error in the function that
\* awaits it, which is the awaited fetch or the operation itself: nothing
\* catches the error and the promise of that function rejects with it
aggregateThrowsRetrying(c, error) ==
  IF c.queries < 2 THEN [c EXCEPT !.queries = @ + 1, !.aggregate = [status |-> "pending"]]
  ELSE IF c.op \in AwaitingFetch
       THEN [c EXCEPT !.awaited = [status |-> "rejected", error |-> thrown(error)]]
       ELSE [c EXCEPT !.status = "rejected"] @@ [error |-> thrown(error)]
aggregateThrows(c, error) ==
  IF c.op \in AwaitingFetch
  THEN [c EXCEPT !.awaited = [status |-> "rejected", error |-> thrown(error)]]
  ELSE [c EXCEPT !.status = "rejected"] @@ [error |-> thrown(error)]

\* the value the operation op computes from the groups of the awaited fetch
engineValue(c, groups) ==
  IF c.op = "getTopMigratingGroups"
  THEN getTopMigratingGroups(groups, OrDefault(c.limit, DefaultTopLimit))
  ELSE getGroupingSummary(groups)

\* the value the function that awaits the query computes from its answer
aggregateValue(c, results) ==
  IF c.op = "findProfitableTokenGroups" THEN results
  ELSE fetchProfitableTokenGroupsWithMigration(results, c.filters)

\* the answers the query of the operation may give
engineResults(c) ==
  IF c.op = "findProfitableTokenGroups" THEN findProfitableTokenGroups(store, c.options)
  ELSE aggregate(store, c.groupingCriteria, c.filters)

\* the pipeline of the query of the operation
enginePipeline(c) ==
  IF c.op = "findProfitableTokenGroups" THEN profitPipeline ELSE fetchPipeline

\* a caller invokes one of the operations, which runs up to the await of
\* the query
EngineCall ==
  /\ call.status # "pending"
  /\ \E op \in EngineOps :
       call' = aggregateIssued(
                 [op |-> op, status |-> "pending",
                  groupingCriteria |-> Criteria(TRUE, FALSE, FALSE, FALSE),
                  filters |-> Filters(Undefined, Undefined), limit |-> Undefined,
                  options |-> Options(Undefined, Undefined, Some(1), Undefined, Undefined),
                  queries |-> 0, aggregate |-> [status |-> "none"],
                  awaited |-> [status |-> IF op \in AwaitingFetch THEN "pending" ELSE "none"]])
  /\ UNCHANGED store

\* the database answers the query
AggregateFulfils ==
  /\ call.op \in EngineOps
  /\ call.status = "pending"
  /\ call.aggregate.status = "pending"
  /\ \E results \in engineResults(call) :
       /\ call' = [call EXCEPT !.aggregate = [status |-> "fulfilled", results |-> results]]
       /\ store' = collectionAfter(store, Aggregate(enginePipeline(call)), results)

\* the database fails the query
AggregateRejects ==
  /\ call.op \in EngineOps
  /\ call.status = "pending"
  /\ call.aggregate.status = "pending"
  /\ \E error \in Errors :
       call' = [call EXCEPT !.aggregate = [status |-> "rejected", error |-> error]]
  /\ UNCHANGED store

\* the fetch awaited by getTopMigratingGroups or getGroupingSummary resumes
\* after its await of the query and settles
FetchSettle ==
  /\ call.op \in AwaitingFetch
  /\ call.status = "pending"
  /\ call.awaited.status = "pending"
  /\ call.aggregate.status \in {"fulfilled", "rejected"}
  /\ call' = IF call.aggregate.status = "rejected"
             THEN aggregateThrows(call, call.aggregate.error)
             ELSE [call EXCEPT !.awaited =
                     [status |-> "fulfilled",
                      value |-> aggregateValue(call, call.aggregate.results)]]
  /\ UNCHANGED store

\* the operation resumes after its await, of the fetch or of the query, and
\* settles
EngineSettle ==
  /\ call.op \in EngineOps
  /\ call.status = "pending"
  /\ IF call.op \in AwaitingFetch
     THEN /\ call.awaited.status \in {"fulfilled", "rejected"}
          /\ call' = IF call.awaited.status = "rejected"
                     THEN [call EXCEPT !.status = "rejected"] @@
                          [error |-> thrown(call.awaited.error)]
                     ELSE [call EXCEPT !.status = "resolved"] @@
                          [value |-> engineValue(call, call.awaited.value)]
     ELSE /\ call.aggregate.status \in {"fulfilled", "rejected"}
          /\ call' = IF call.aggregate.status = "rejected"
                     THEN aggregateThrows(call, call.aggregate.error)
                     ELSE [call EXCEPT !.status = "resolved"] @@
                          [value |-> aggregateValue(call, call.aggregate.results)]
  /\ UNCHANGED store

FailInit ==
  /\ store \in {Collection(ks) : ks \in SeqsUpTo(FailKinds, MaxRecords)}
  /\ call = Idle

FailNext ==
  EngineCall \/ AggregateFulfils \/ AggregateRejects \/ FetchSettle \/ EngineSettle

SpecFail == FailInit /\ [][FailNext]_vars

(***************************************************************************)
(* CommonQueries.getMigrationRateDistribution.  Rates are in hundredths of *)
(* a percent; the average is the double the code computes, the sum of the  *)
(* rates from 0 divided by the number of groups, and 0 / 0 is NaN.         *)
(***************************************************************************)
DefaultMinSol == SOL

\* the number of groups whose migrationRate is in [low, high)
RECURSIVE countIn(_, _, _)
countIn(groups, low, high) ==
  IF groups = <<>> THEN 0
  ELSE (IF Head(groups).migrationRate >= low /\ Head(groups).migrationRate < high
        THEN 1 ELSE 0) + countIn(Tail(groups), low, high)

getMigrationRateDistribution(allGroups) ==
  [distribution |->
     [veryHigh |-> countIn(allGroups, 9000, 10001),
      high |-> countIn(allGroups, 7000, 9000),
      medium |-> countIn(allGroups, 5000, 7000),
      low |-> countIn(allGroups, 3000, 5000),
      veryLow |-> countIn(allGroups, 0, 3000)],
   totalGroups |-> Len(allGroups),
   avgMigrationRate |->
     IF Len(allGroups) = 0 THEN NaN
     ELSE Num(DoubleDivInt(reduceRates(allGroups, DoubleOfInt(0)), Len(allGroups)))]

\* tokens of two patterns, migrated or not, and one that peaks below 1 SOL
DistributionKindList ==
  <<Kind(TRUE, "a", 0, 10, 2 * SOL, 10000, 10000, 0),
    Kind(FALSE, "a", 0, 10, 2 * SOL, 10000, 10000, 0),
    Kind(TRUE, "b", 0, 10, 4 * SOL, 10000, 10000, 0),
    Kind(FALSE, "b", 0, 10, 4 * SOL, 10000, 10000, 0),
    Kind(TRUE, "c", 0, 10, 50000, 10000, 10000, 0)>>

DistributionMinSols == {Undefined, Some(3 * SOL)}

DistributionCall ==
  /\ call.status # "pending"
  /\ \E minSol \in DistributionMinSols :
       call' = [op |-> "getMigrationRateDistribution", status |-> "pending",
                groupingCriteria |-> Criteria(TRUE, FALSE, FALSE, FALSE),
                filters |-> Filters(Some(OrDefault(minSol, DefaultMinSol)), Undefined),
                awaited |-> [status |-> "pending"]]
  /\ UNCHANGED store

\* getMigrationRateDistribution resumes with the groups of the awaited fetch
\* and returns their distribution
DistributionReturn ==
  /\ call.op = "getMigrationRateDistribution"
  /\ call.status = "pending"
  /\ call.awaited.status = "fulfilled"
  /\ call' = [call EXCEPT !.status = "resolved"] @@
             [value |-> getMigrationRateDistribution(call.awaited.value)]
  /\ UNCHANGED store

DistributionInit ==
  /\ store \in {Collection(ks) : ks \in OrderedSeqsUpTo(DistributionKindList, MaxProfitRecords)}
  /\ call = Idle

DistributionNext == DistributionCall \/ AwaitedFetch \/ DistributionReturn

SpecDistribution == DistributionInit /\ [][DistributionNext]_vars

Distributed == call.op = "getMigrationRateDistribution" /\ call.status = "resolved"

(***************************************************************************)
(* findMostProfitableTokens, and both profit queries on tokens whose buy   *)
(* price is the one or the other of mintSlotSol and firstSlotSol.          *)
(***************************************************************************)
DefaultTokenLimit == 20

\* the two $addFields stages: the document with its buyPriceSol and riseSol
withRise(doc) == [buyPriceSol |-> buyPriceSol(doc), riseSol |-> profitRiseSol(doc)] @@ doc

\* the $project stage; _id is kept as in every $project that does not
\* exclude it
tokenProject(doc) ==
  [_id |-> doc._id, mint |-> doc.mint, mintPattern |-> doc.mintPattern,
   maxSol |-> doc.maxSol, buyPriceSol |-> doc.buyPriceSol, riseSol |-> doc.riseSol,
   unitPrice |-> doc.unitPrice, unitLimit |-> doc.unitLimit,
   extended |-> doc.extended, createdAt |-> doc.createdAt]

\* every order of the documents at the positions I a descending $sort on
\* riseSol may produce
RECURSIVE riseSortedOrders(_, _)
riseSortedOrders(docs, I) ==
  IF I = {} THEN {<<>>}
  ELSE UNION {{<<docs[i]>> \o rest : rest \in riseSortedOrders(docs, I \ {i})} :
                i \in {x \in I : \A y \in I :
                         DoubleCmp(docs[y].riseSol, docs[x].riseSol) <= 0}}

\* the stages of the pipeline after the two $addFields
mostProfitableOf(docs, limit, minRiseSol) ==
  {[j \in 1..Len(Take(order, limit)) |-> tokenProject(order[j])] :
     order \in riseSortedOrders(docs, {i \in 1..Len(docs) :
                                         riseReaches(docs[i].riseSol, minRiseSol)})}

\* TokenInfoModel.aggregate([...]): the possible result arrays
findMostProfitableTokens(docs, limit, minRiseSol) ==
  IF ~limitAccepted(limit) THEN {}
  ELSE mostProfitableOf(Computed([i \in 1..Len(docs) |-> withRise(docs[i])]),
                        limit, minRiseSol)

\* recent tokens of rise 2 (bought at mintSlotSol), 2 (bought at
\* firstSlotSol), -1, 0 and 4 SOL
BuyKinds ==
  {ProfitKind("a", 0, 3 * SOL, 1 * SOL, 2 * SOL, 9),
   ProfitKind("a", 0, 3 * SOL, 2 * SOL, 1 * SOL, 9),
   ProfitKind("a", 0, 1 * SOL, 2 * SOL, 3 * SOL, 9),
   ProfitKind("b", 0, 2 * SOL, 2 * SOL, 2 * SOL, 9),
   ProfitKind("b", 0, 5 * SOL, 1 * SOL, 4 * SOL, 9)}

BuyMinRises == {Undefined, Some(2 * SOL), Some(30000)}

\* a token of rise 0.7 - 0.4 SOL, the double 0.29999999999999993, next to one
\* of rise 2 SOL
InexactBuy ==
  <<ProfitKind("a", 0, 70000, 40000, 40000, 9),
    ProfitKind("a", 0, 3 * SOL, 1 * SOL, 2 * SOL, 9)>>
TokenLimits == {Undefined, Some(1), Some(0)}

TokensCall ==
  /\ call.status # "pending"
  /\ \E limit \in TokenLimits, minRiseSol \in BuyMinRises :
       call' = [op |-> "findMostProfitableTokens", status |-> "pending",
                limit |-> OrDefault(limit, DefaultTokenLimit),
                minRiseSol |-> OrDefault(minRiseSol, DefaultMinRiseSol)]
  /\ UNCHANGED store

\* the aggregate query answers and the call returns its result
TokensReturn ==
  /\ call.op = "findMostProfitableTokens"
  /\ call.status = "pending"
  /\ \E value \in findMostProfitableTokens(store, call.limit, call.minRiseSol) :
       /\ call' = [call EXCEPT !.status = "resolved"] @@ [value |-> value]
       /\ store' = collectionAfter(store, Aggregate(tokensPipeline), value)

\* the aggregate query is refused for its $limit and the call rejects
TokensRejects ==
  /\ call.op = "findMostProfitableTokens"
  /\ call.status = "pending"
  /\ ~limitAccepted(call.limit)
  /\ call' = [call EXCEPT !.status = "rejected"] @@ [error |-> LimitError]
  /\ UNCHANGED store

BuyProfitCall ==
  /\ call.status # "pending"
  /\ \E minRiseSol \in BuyMinRises :
       call' = [op |-> "findProfitableTokenGroups", status |-> "pending",
                options |-> Options(Undefined, minRiseSol, Some(1), Undefined, Undefined)]
  /\ UNCHANGED store

BuyInit ==
  /\ store \in {Collection(ks) : ks \in SeqsUpTo(BuyKinds, MaxRecords) \cup {InexactBuy}}
  /\ call = Idle

BuyNext == TokensCall \/ TokensReturn \/ TokensRejects \/ BuyProfitCall \/ ProfitReturn

SpecBuy == BuyInit /\ [][BuyNext]_vars

TokensFound == call.op = "findMostProfitableTokens" /\ call.status = "resolved"

(***************************************************************************)
(* The entry points that connect to the database: the app main and the     *)
(* token queries main of database.config.ts, the server, the migration     *)
(* analysis, the interactive analysis main and the custom analysis         *)
(* template.  Each awaits connect, then its queries one after the other,   *)
(* then disconnect; any awaited call may fail.                             *)
(***************************************************************************)
EntryPoints ==
  {"appMain", "tokenQueriesMain", "startServer", "runMigrationAnalysis", "analysisMain",
   "myCustomAnalysis"}

\* the number of queries the entry point awaits
QueriesOf(entry) ==
  IF entry = "appMain" THEN 1
  ELSE IF entry = "tokenQueriesMain" THEN 11
  ELSE IF entry = "startServer" THEN 0
  ELSE IF entry = "runMigrationAnalysis" THEN 5
  ELSE IF entry = "analysisMain" THEN 9
  ELSE 7

\* the entry point disconnects in a finally block; the two mains of
\* database.config.ts disconnect at the end of their try block and their
\* catch block calls process.exit(1)
DisconnectsInFinally(entry) ==
  entry \in {"runMigrationAnalysis", "analysisMain", "myCustomAnalysis"}

\* startServer awaits connect and starts listening: it has no query of its
\* own and no call of disconnect, and the process keeps serving
Listens(entry) == entry = "startServer"

EntryInit ==
  /\ store \in {Collection(ks) : ks \in SeqsUpTo(FailKinds, MaxRecords)}
  /\ \E entry \in EntryPoints :
       call = [op |-> entry, status |-> "connecting", connected |-> FALSE,
               disconnectCalled |-> FALSE, queriesLeft |-> QueriesOf(entry),
               failed |-> FALSE]

ConnectOk ==
  /\ call.status = "connecting"
  /\ call' = [call EXCEPT !.status = IF Listens(call.op) THEN "listening" ELSE "querying",
                          !.connected = TRUE]
  /\ UNCHANGED store

\* connect rejects: the entry point ends without having connected
ConnectFails ==
  /\ call.status = "connecting"
  /\ call' = [call EXCEPT !.status = "ended", !.failed = TRUE]
  /\ UNCHANGED store

QueryOk ==
  /\ call.status = "querying"
  /\ call.queriesLeft > 0
  /\ call' = [call EXCEPT !.queriesLeft = @ - 1]
  /\ UNCHANGED store

\* an awaited query rejects: control goes to the catch block, and then to
\* the finally block if there is one, which calls disconnect
QueryFails ==
  /\ call.status = "querying"
  /\ call.queriesLeft > 0
  /\ call' = [call EXCEPT !.failed = TRUE,
                          !.disconnectCalled = DisconnectsInFinally(call.op),
                          !.status = IF DisconnectsInFinally(call.op)
                                     THEN "disconnecting" ELSE "ended"]
  /\ UNCHANGED store

\* the last query has answered: the entry point calls disconnect
QueriesDone ==
  /\ call.status = "querying"
  /\ call.queriesLeft = 0
  /\ call' = [call EXCEPT !.status = "disconnecting", !.disconnectCalled = TRUE]
  /\ UNCHANGED store

\* the awaited disconnect fulfils
Disconnect ==
  /\ call.status = "disconnecting"
  /\ call' = [call EXCEPT !.status = "ended"]
  /\ UNCHANGED store

\* the awaited disconnect rejects: connection.ts rethrows the error, which
\* ends the entry point
DisconnectFails ==
  /\ call.status = "disconnecting"
  /\ call' = [call EXCEPT !.status = "ended", !.failed = TRUE]
  /\ UNCHANGED store

EntryNext ==
  \/ ConnectOk \/ ConnectFails \/ QueryOk \/ QueryFails \/ QueriesDone
  \/ Disconnect \/ DisconnectFails

\* the event loop runs every continuation that is ready
SpecEntry == EntryInit /\ [][EntryNext]_vars /\ WF_vars(EntryNext)

(***************************************************************************)
(* The ten token queries of QueryService: one find, findOne, aggregate or  *)
(* countDocuments each, whose answer the method returns.                   *)
(***************************************************************************)
DefaultRecentDays == 1
DefaultMinMaxSol == 5 * SOL
DefaultPriceLimit == 10
DefaultPatternLimit == 20
HighLiquidityLimit == 50

\* every order of the documents at the positions I a descending sort on
\* the field may produce
RECURSIVE fieldSortedOrders(_, _, _)
fieldSortedOrders(docs, I, field) ==
  IF I = {} THEN {<<>>}
  ELSE UNION {{<<docs[i]>> \o rest : rest \in fieldSortedOrders(docs, I \ {i}, field)} :
                i \in {x \in I : \A y \in I : docs[y][field] <= docs[x][field]}}

\* find({ createdAt: { $gte: startDate } }).sort({ createdAt: -1 })
findRecentTokens(docs, days) ==
  fieldSortedOrders(docs, {i \in 1..Len(docs) : docs[i].createdAt >= Today - days},
                    "createdAt")

\* findOne({ mint }): the document of that mint, or null
findTokenByMint(docs, mint) ==
  IF \E i \in 1..Len(docs) : docs[i].mint = mint
  THEN {Some(docs[i]) : i \in {x \in 1..Len(docs) : docs[x].mint = mint}}
  ELSE {Undefined}

\* find({ maxSol: { $gte: minMaxSol } }).sort({ maxSol: -1 }).limit(50)
findHighLiquidityTokens(docs, minMaxSol) ==
  {Take(order, HighLiquidityLimit) :
     order \in fieldSortedOrders(docs, {i \in 1..Len(docs) : docs[i].maxSol >= minMaxSol},
                                 "maxSol")}

\* find({ extended: true }).sort({ createdAt: -1 })
findExtendedTokens(docs) ==
  fieldSortedOrders(docs, {i \in 1..Len(docs) : docs[i].extended}, "createdAt")

\* { $sum: { $cond: [test, 1, 0] } }
countWhere(docs, Test(_)) == Cardinality({i \in 1..Len(docs) : Test(docs[i])})

\* aggregate([{ $group: { _id: null, ... } }]): one document, none for an
\* empty collection
getTokenStatsByMEVService(docs) ==
  IF docs = <<>> THEN {<<>>}
  ELSE {<<[_id |-> Undefined,
           totalTokens |-> Len(docs),
           jitoCount |-> countWhere(docs, LAMBDA d : d.jito > 0),
           bloxRouteCount |-> countWhere(docs, LAMBDA d : d.bloxRoute > 0),
           photonCount |-> countWhere(docs, LAMBDA d : d.photon > 0),
           axiomCount |-> countWhere(docs, LAMBDA d : d.axiom > 0),
           extendedCount |-> countWhere(docs, LAMBDA d : d.extended),
           lookupTableCount |-> countWhere(docs, LAMBDA d : d.lookupTable)]>>}

\* find({ maxPrice: { $gt: 0 } }).sort({ maxPrice: -1 }).limit(limit), for a
\* positive limit
getTopPriceTokens(docs, limit) ==
  {Take(order, limit) :
     order \in fieldSortedOrders(docs, {i \in 1..Len(docs) : docs[i].maxPrice > 0},
                                 "maxPrice")}

\* { $avg: '$field' } over the documents at the positions I, the field being
\* an amount or a plain number
avgAmount(docs, I, field) ==
  DoubleDivInt(DoubleSum([j \in 1..Len(I) |-> DoubleOfUnits(docs[I[j]][field])]), Len(I))
avgNumber(docs, I, field) ==
  DoubleDivInt(DoubleSum([j \in 1..Len(I) |-> DoubleOfInt(docs[I[j]][field])]), Len(I))

\* the positions of the documents of docs that pass Test, in order
positionsWhere(docs, Test(_)) == SelectSeq([i \in 1..Len(docs) |-> i], LAMBDA i : Test(docs[i]))

\* the $group stage of getPatternFrequency for one pattern
patternGroup(docs, pattern, I) ==
  [_id |-> pattern, count |-> Len(I), avgMaxSol |-> avgAmount(docs, I, "maxSol"),
   tokens |-> [j \in 1..Len(I) |-> docs[I[j]].mint]]

\* every order of the set S a descending $sort on count may produce
RECURSIVE countSortedOrders(_)
countSortedOrders(S) ==
  IF S = {} THEN {<<>>}
  ELSE UNION {{<<g>> \o rest : rest \in countSortedOrders(S \ {g})} :
                g \in {x \in S : \A y \in S : y.count <= x.count}}

\* aggregate([$match mintPattern not '', $group by mintPattern, $sort by
\* count descending, $limit limit])
getPatternFrequency(docs, limit) ==
  IF ~limitAccepted(limit) THEN {}
  ELSE {Take(order, limit) :
          order \in countSortedOrders(
            {patternGroup(docs, pattern,
                          positionsWhere(docs, LAMBDA d : d.mintPattern = pattern)) :
               pattern \in {docs[i].mintPattern : i \in 1..Len(docs)} \ {""}})}

\* const [stats] = await aggregate([{ $group: { _id: null, ... } }]); the
\* first element is undefined for an empty collection
tokenOverview(docs, I) ==
  [_id |-> Undefined,
   totalTokens |-> Len(docs),
   avgMaxSol |-> avgAmount(docs, I, "maxSol"),
   avgMaxPrice |-> avgAmount(docs, I, "maxPrice"),
   avgMintBuyAmt |-> avgAmount(docs, I, "mintBuyAmt"),
   extendedCount |-> countWhere(docs, LAMBDA d : d.extended),
   migratedCount |-> countWhere(docs, LAMBDA d : d.migrateTime > 0),
   avgTracesLen |-> avgNumber(docs, I, "tracesLen"),
   avgTradesLen |-> avgNumber(docs, I, "tradesLen")]
getTokenOverview(docs) ==
  IF docs = <<>> THEN {Undefined}
  ELSE {Some(tokenOverview(docs, [i \in 1..Len(docs) |-> i]))}

\* countDocuments()
countTotalTokens(docs) == {Len(docs)}

\* findOne().sort({ createdAt: -1 }): a document created last, or null
getLatestToken(docs) ==
  IF docs = <<>> THEN {Undefined}
  ELSE {Some(docs[i]) :
          i \in {x \in 1..Len(docs) : \A y \in 1..Len(docs) :
                   docs[y].createdAt <= docs[x].createdAt}}

TokenQueries ==
  {"findRecentTokens", "findTokenByMint", "findHighLiquidityTokens", "findExtendedTokens",
   "getTokenStatsByMEVService", "getTopPriceTokens", "getPatternFrequency",
   "getTokenOverview", "countTotalTokens", "getLatestToken"}

\* the arguments the token queries are called with; Undefined is an argument
\* left out
TokenQueryArgs(op) ==
  IF op = "findRecentTokens" THEN {Undefined, Some(2)}
  ELSE IF op = "findTokenByMint" THEN {Some(1), Some(9)}
  ELSE IF op = "findHighLiquidityTokens" THEN {Undefined, Some(3 * SOL)}
  ELSE IF op = "getTopPriceTokens" THEN {Undefined, Some(1)}
  ELSE IF op = "getPatternFrequency" THEN {Undefined, Some(1), Some(0)}
  ELSE {Undefined}

\* the command the token query sends
tokenQueryCommand(op) ==
  IF op \in {"findRecentTokens", "findHighLiquidityTokens", "findExtendedTokens",
             "getTopPriceTokens"} THEN Query("find")
  ELSE IF op \in {"findTokenByMint", "getLatestToken"} THEN Query("findOne")
  ELSE IF op = "countTotalTokens" THEN Query("countDocuments")
  ELSE IF op = "getTokenStatsByMEVService" THEN Aggregate(mevStatsPipeline)
  ELSE IF op = "getPatternFrequency" THEN Aggregate(patternFrequencyPipeline)
  ELSE Aggregate(overviewPipeline)

\* the values the token query may return
tokenQueryResults(docs, op, arg) ==
  IF op = "findRecentTokens" THEN findRecentTokens(docs, OrDefault(arg, DefaultRecentDays))
  ELSE IF op = "findTokenByMint" THEN findTokenByMint(docs, Get(arg))
  ELSE IF op = "findHighLiquidityTokens"
       THEN findHighLiquidityTokens(docs, OrDefault(arg, DefaultMinMaxSol))
  ELSE IF op = "findExtendedTokens" THEN findExtendedTokens(docs)
  ELSE IF op = "getTokenStatsByMEVService" THEN getTokenStatsByMEVService(docs)
  ELSE IF op = "getTopPriceTokens" THEN getTopPriceTokens(docs, OrDefault(arg, DefaultPriceLimit))
  ELSE IF op = "getPatternFrequency"
       THEN getPatternFrequency(docs, OrDefault(arg, DefaultPatternLimit))
  ELSE IF op = "getTokenOverview" THEN getTokenOverview(docs)
  ELSE IF op = "countTotalTokens" THEN countTotalTokens(docs)
  ELSE getLatestToken(docs)

\* a caller invokes one of the token queries, which is suspended on its
\* command
TokenQueryCall ==
  /\ call.status # "pending"
  /\ \E op \in TokenQueries :
       \E arg \in TokenQueryArgs(op) :
         call' = [op |-> op, status |-> "pending", arg |-> arg]
  /\ UNCHANGED store

\* the command answers and the token query returns the answer
TokenQueryReturn ==
  /\ call.op \in TokenQueries
  /\ call.status = "pending"
  /\ \E value \in tokenQueryResults(store, call.op, call.arg) :
       /\ call' = [call EXCEPT !.status = "resolved"] @@ [value |-> value]
       /\ store' = collectionAfter(store, tokenQueryCommand(call.op), value)

\* the pipeline of getPatternFrequency is refused for its $limit and the
\* call rejects
TokenQueryRejects ==
  /\ call.op = "getPatternFrequency"
  /\ call.status = "pending"
  /\ ~limitAccepted(OrDefault(call.arg, DefaultPatternLimit))
  /\ call' = [call EXCEPT !.status = "rejected"] @@ [error |-> LimitError]
  /\ UNCHANGED store

(***************************************************************************)
(* fetchTokenGroupsByKey and the operations of CommonQueries that await    *)
(* one fetch, directly or through fetchTokenGroupsByKey or                 *)
(* getTopMigratingGroups; deepDivePattern awaits a fetch and then a        *)
(* summary.  Amounts are in model units and rates in hundredths.           *)
(***************************************************************************)
WrapperOps ==
  {"fetchTokenGroupsByKey", "getMostSuccessfulMintPatterns", "analyzePricingStrategies",
   "getSuccessfulPublisherConfigs", "getRecentHighPerformers", "analyzeBundleStrategies",
   "getHighValueGroups", "getConsistentPerformers", "deepDivePattern", "getRoiLeaders",
   "customAnalysis"}

\* const criteria = { [groupKey]: true }
keyCriteria(key) ==
  Criteria(key = "mintPattern", key = "unitPrice", key = "unitLimit", key = "postMintBundle")

\* the default values of the parameters of the operation
wrapperDefaults(op) ==
  IF op = "fetchTokenGroupsByKey" THEN [filters |-> Filters(Undefined, Undefined)]
  ELSE IF op = "analyzePricingStrategies" THEN [minSol |-> 2 * SOL]
  ELSE IF op = "getRecentHighPerformers" THEN [days |-> 7, minSol |-> SOL]
  ELSE IF op = "analyzeBundleStrategies" THEN [minSol |-> 150000]
  ELSE IF op = "getHighValueGroups" THEN [minAvgSol |-> 5 * SOL, minTokens |-> 3]
  ELSE IF op = "getConsistentPerformers" THEN [minMigrationRate |-> 7000, minTokens |-> 5]
  ELSE IF op = "getRoiLeaders" THEN [minSol |-> SOL, limit |-> 20]
  ELSE IF op = "customAnalysis" THEN [sortBy |-> "migrationRate", limit |-> 10]
  ELSE [minSol |-> SOL]

\* the parameter name of the call: the argument, or the default value when
\* the argument is left out
Arg(op, args, name) == IF name \in DOMAIN args THEN args[name] ELSE wrapperDefaults(op)[name]

\* the grouping criteria and the filters the operation passes to the fetch
wrapperCriteria(op, args) ==
  IF op = "fetchTokenGroupsByKey" THEN keyCriteria(args.groupKey)
  ELSE IF op = "getMostSuccessfulMintPatterns" THEN Criteria(TRUE, FALSE, FALSE, FALSE)
  ELSE IF op = "analyzePricingStrategies" THEN keyCriteria("unitPrice")
  ELSE IF op \in {"getSuccessfulPublisherConfigs", "deepDivePattern"}
       THEN Criteria(TRUE, TRUE, TRUE, FALSE)
  ELSE IF op = "analyzeBundleStrategies" THEN Criteria(TRUE, FALSE, FALSE, TRUE)
  ELSE IF op = "customAnalysis" THEN args.groupingCriteria
  ELSE Criteria(TRUE, TRUE, FALSE, FALSE)
wrapperFilters(op, args) ==
  IF op = "fetchTokenGroupsByKey" THEN Arg(op, args, "filters")
  ELSE IF op = "customAnalysis" THEN args.filters
  ELSE IF op = "getRecentHighPerformers"
       THEN AllFilters(Some(Arg(op, args, "minSol")), Some(Now - Arg(op, args, "days") * Day),
                       Undefined, Undefined, Undefined, Undefined, Undefined)
  ELSE IF op = "getHighValueGroups" THEN Filters(Some(2 * SOL), Undefined)
  ELSE IF op = "getConsistentPerformers" THEN Filters(Some(SOL), Undefined)
  ELSE IF op = "deepDivePattern"
       THEN AllFilters(Some(0), Undefined, Undefined, Some(args.mintPattern),
                       Undefined, Undefined, Undefined)
  ELSE Filters(Some(Arg(op, args, "minSol")), Undefined)

\* the QueryService methods between the operation and the fetch, each
\* awaiting the next
framesOf(op) ==
  IF op \in {"getMostSuccessfulMintPatterns", "getRecentHighPerformers"}
  THEN <<"getTopMigratingGroups">>
  ELSE IF op = "analyzePricingStrategies" THEN <<"fetchTokenGroupsByKey">>
  ELSE <<>>

\* the limit the operation passes to getTopMigratingGroups
topLimitOf(op) == IF op = "getMostSuccessfulMintPatterns" THEN 20 ELSE 15

\* what the QueryService method returns from the groups of the fetch
serviceValue(method, op, groups) ==
  IF method = "getTopMigratingGroups" THEN getTopMigratingGroups(groups, topLimitOf(op))
  ELSE IF method = "getGroupingSummary" THEN getGroupingSummary(groups)
  ELSE groups

\* Array.prototype.sort((a, b) => b[field] - a[field]): the sort is stable;
\* the group at position i goes to the position rankOf(groups, field, i)
rankOf(groups, field, i) ==
  Cardinality({j \in 1..Len(groups) :
                 \/ groups[j][field] > groups[i][field]
                 \/ groups[j][field] = groups[i][field] /\ j <= i})
sortDescending(groups, field) ==
  Computed([k \in 1..Len(groups) |->
              groups[CHOOSE i \in 1..Len(groups) : rankOf(groups, field, i) = k]])

\* allGroups.filter(...).sort((a, b) => b.avgMaxSol - a.avgMaxSol)
getHighValueGroups(allGroups, minAvgSol, minTokens) ==
  sortDescending(SelectSeq(allGroups,
                           LAMBDA g : g.avgMaxSol >= minAvgSol /\ g.totalTokens >= minTokens),
                 "avgMaxSol")

\* allGroups.filter(...).sort((a, b) => b.migrationRate - a.migrationRate)
getConsistentPerformers(allGroups, minMigrationRate, minTokens) ==
  sortDescending(SelectSeq(allGroups,
                           LAMBDA g : /\ g.migrationRate >= minMigrationRate
                                      /\ g.totalTokens >= minTokens),
                 "migrationRate")

\* allGroups.sort((a, b) => b.totalMaxSol - a.totalMaxSol).slice(0, limit)
getRoiLeaders(allGroups, limit) == slice0(sortDescending(allGroups, "totalMaxSol"), limit)

\* [...groups].sort((a, b) => b[sortBy] - a[sortBy]).slice(0, limit)
customAnalysis(groups, sortBy, limit) == slice0(sortDescending(groups, sortBy), limit)

\* { pattern: mintPattern, summary, subGroups: groups }
deepDivePattern(mintPattern, summary, groups) ==
  [pattern |-> mintPattern, summary |-> summary, subGroups |-> groups]

\* what the operation returns from the value it awaited last
wrapperValue(c, awaited) ==
  IF c.op = "getHighValueGroups"
  THEN getHighValueGroups(awaited, Arg(c.op, c.args, "minAvgSol"),
                          Arg(c.op, c.args, "minTokens"))
  ELSE IF c.op = "getConsistentPerformers"
       THEN getConsistentPerformers(awaited, Arg(c.op, c.args, "minMigrationRate"),
                                    Arg(c.op, c.args, "minTokens"))
  ELSE IF c.op = "getRoiLeaders" THEN getRoiLeaders(awaited, Arg(c.op, c.args, "limit"))
  ELSE IF c.op = "customAnalysis"
       THEN customAnalysis(awaited, Arg(c.op, c.args, "sortBy"), Arg(c.op, c.args, "limit"))
  ELSE IF c.op = "deepDivePattern"
       THEN deepDivePattern(c.args.mintPattern, awaited, c.subGroups)
  ELSE awaited

\* the arguments the operations are called with; a field left out is an
\* argument left out
NoArgs == <<>>
WrapperArgs(op) ==
  IF op = "fetchTokenGroupsByKey"
  THEN {[groupKey |-> "mintPattern"],
        [groupKey |-> "unitPrice", filters |-> Filters(Some(SOL), Undefined)]}
  ELSE IF op = "getRecentHighPerformers" THEN {NoArgs, [days |-> 30, minSol |-> 3 * SOL]}
  ELSE IF op = "getHighValueGroups" THEN {NoArgs, [minAvgSol |-> 2 * SOL, minTokens |-> 1]}
  ELSE IF op = "getConsistentPerformers"
       THEN {NoArgs, [minMigrationRate |-> 5000, minTokens |-> 1]}
  ELSE IF op = "deepDivePattern" THEN {[mintPattern |-> "a"], [mintPattern |-> ""]}
  ELSE IF op = "getRoiLeaders" THEN {NoArgs, [minSol |-> 0, limit |-> 1]}
  ELSE IF op = "customAnalysis"
       THEN {[groupingCriteria |-> Criteria(TRUE, FALSE, FALSE, FALSE),
              filters |-> Filters(Undefined, Undefined)],
             [groupingCriteria |-> Criteria(TRUE, TRUE, FALSE, FALSE),
              filters |-> Filters(Undefined, Undefined),
              sortBy |-> "totalTokens", limit |-> 1]}
  ELSE {NoArgs, [minSol |-> 3 * SOL]}

\* a caller invokes one of the operations, which runs up to the await of
\* the fetch
WrapperCall ==
  /\ call.status # "pending"
  /\ \E op \in WrapperOps :
       \E args \in WrapperArgs(op) :
         call' = [op |-> op, status |-> "pending", args |-> args,
                  groupingCriteria |-> wrapperCriteria(op, args),
                  filters |-> wrapperFilters(op, args),
                  frames |-> framesOf(op), awaited |-> [status |-> "pending"]]
  /\ UNCHANGED store

\* the QueryService method that awaits the fetch resumes and returns
ServiceResume ==
  /\ call.op \in WrapperOps
  /\ call.status = "pending"
  /\ call.awaited.status = "fulfilled"
  /\ call.frames # <<>>
  /\ call' = [call EXCEPT !.frames = Tail(@),
                          !.awaited.value = serviceValue(Head(call.frames), call.op, @)]
  /\ UNCHANGED store

\* deepDivePattern resumes with the groups of its fetch and calls
\* getGroupingSummary, which runs up to the await of its own fetch
DeepDiveSummaryCall ==
  /\ call.op = "deepDivePattern"
  /\ call.status = "pending"
  /\ call.awaited.status = "fulfilled"
  /\ "subGroups" \notin DOMAIN call
  /\ call' = [call EXCEPT !.groupingCriteria = Criteria(TRUE, FALSE, FALSE, FALSE),
                          !.filters = AllFilters(Undefined, Undefined, Undefined,
                                                 Some(call.args.mintPattern),
                                                 Undefined, Undefined, Undefined),
                          !.frames = <<"getGroupingSummary">>,
                          !.awaited = [status |-> "pending"]] @@
             [subGroups |-> call.awaited.value]
  /\ UNCHANGED store

\* the operation resumes with the value it awaited last and returns
WrapperReturn ==
  /\ call.op \in WrapperOps
  /\ call.status = "pending"
  /\ call.awaited.status = "fulfilled"
  /\ call.frames = <<>>
  /\ call.op = "deepDivePattern" => "subGroups" \in DOMAIN call
  /\ call' = [call EXCEPT !.status = "resolved"] @@
             [value |-> wrapperValue(call, call.awaited.value)]
  /\ UNCHANGED store

(***************************************************************************)
(* The operations of QueryService and CommonQueries called one after the   *)
(* other, in any order, on one collection.                                 *)
(***************************************************************************)
\* an extended token of pattern "a" with a price and MEV services, a token
\* of pattern "b", and a token of pattern "a" minted three days ago
AnyKinds ==
  {[extended |-> TRUE, maxPrice |-> 200, jito |-> 1, migrateTime |-> 5, tracesLen |-> 3] @@
     RankKind(TRUE, "a", 2 * SOL),
   RankKind(FALSE, "b", 3 * SOL),
   Kind(TRUE, "a", 0, Now - 3 * Day, 2 * SOL, 10000, 10000, 0)}

AnyInit ==
  /\ store \in {Collection(ks) : ks \in SeqsUpTo(AnyKinds, MaxRecords)}
  /\ call = Idle

AnyNext ==
  \/ FetchCall \/ FetchReturn
  \/ TopCall \/ SummaryCall \/ DistributionCall \/ AwaitedFetch
  \/ TopReturn \/ SummaryReturn \/ DistributionReturn
  \/ RankProfitCall \/ ProfitReturn
  \/ TokensCall \/ TokensReturn \/ TokensRejects
  \/ CompareCall \/ SummaryFetch \/ SummaryCompute \/ CompareReturn
  \/ TokenQueryCall \/ TokenQueryReturn \/ TokenQueryRejects
  \/ WrapperCall \/ ServiceResume \/ DeepDiveSummaryCall \/ WrapperReturn

SpecAny == AnyInit /\ [][AnyNext]_vars

(***************************************************************************)
(* The percentile estimator on its own: lines 298-304 and 315 applied to a *)
(* list of rises (the list is empty when every rise of a group is NaN).    *)
(***************************************************************************)
RiseValues == {-20000, 40006, 90000}
EstimatorWinPercents == {0, 50, 70, 80, 100}

\* five rises of 1 to 5 SOL; 0.00015 SOL, halfway between two multiples of
\* 0.0001
FiveRises == <<1 * SOL, 2 * SOL, 3 * SOL, 4 * SOL, 5 * SOL>>
HalfwayRises == <<15>>

\* tokens whose rises are the given amounts: bought at 0, peaking at the rise
tokensRising(rises) ==
  [i \in 1..Len(rises) |-> [maxSol |-> rises[i], mintSlotSol |-> 0, mintBuyAmt |-> 0]]

EstimatorInit ==
  /\ store = <<>>
  /\ \E rises \in SeqsUpTo(RiseValues, MaxRecords)
                      \cup {ScenarioARises, FiveRises, HalfwayRises},
        winPercent \in EstimatorWinPercents :
       call = [op |-> "commonRiseSol", status |-> "pending",
               rises |-> rises, winPercent |-> winPercent]

EstimateCommonRise ==
  /\ call.op = "commonRiseSol"
  /\ call.status = "pending"
  /\ call' = [call EXCEPT !.status = "resolved"] @@
             [value |-> round4(commonRiseSol(riseSols(tokensRising(call.rises)),
                                             call.winPercent))]
  /\ UNCHANGED store

EstimatorNext == EstimateCommonRise

SpecEstimator == EstimatorInit /\ [][EstimatorNext]_vars

Estimated == call.op = "commonRiseSol" /\ call.status = "resolved"

(***************************************************************************)
(* Properties of fetchProfitableTokenGroupsWithMigration.                  *)
(***************************************************************************)
GroupIdx == 1..Len(call.value)
TokenIdx(g) == 1..Len(g.tokens)
Matched == {i \in 1..Len(store) : matchQuery(call.filters, store[i])}
WinPercentOf(filters) ==
  IF IsDefined(filters.winPercent) THEN Get(filters.winPercent) ELSE DefaultWinPercent

\* C1: the migrationRate of every returned group is migratedTokens /
\* totalTokens * 100 rounded to 2 decimals (it is the multiple of 0.01 nearest
\* to the quotient, halves rounded up) and lies between 0 and 100.
C1_MigrationRateRounded ==
  Fetched =>
    \A k \in GroupIdx :
      LET g == call.value[k]
      IN  /\ g.totalTokens > 0
          /\ 2 * (g.migrationRate * g.totalTokens - 10000 * g.migratedTokens) <= g.totalTokens
          /\ 2 * (10000 * g.migratedTokens - g.migrationRate * g.totalTokens) < g.totalTokens
          /\ g.migrationRate >= 0
          /\ g.migrationRate <= 10000

\* C2: grouping partitions the filtered records: every record that passes the
\* filter is in the member list of exactly one group, every member is such a
\* record, totalTokens is the length of the member list, and the totalTokens
\* of all groups sum to the number of filtered records.
C2_GroupingIsPartition ==
  Fetched =>
    /\ \A i \in Matched :
         Cardinality({<<k, j>> \in GroupIdx \X (1..Len(store)) :
                        /\ j \in TokenIdx(call.value[k])
                        /\ call.value[k].tokens[j].mint = store[i].mint}) = 1
    /\ \A k \in GroupIdx : \A j \in TokenIdx(call.value[k]) :
         \E i \in Matched : call.value[k].tokens[j].mint = store[i].mint
    /\ \A k \in GroupIdx : call.value[k].totalTokens = Len(call.value[k].tokens)
    /\ SumSeq([k \in GroupIdx |-> call.value[k].totalTokens]) = Cardinality(Matched)

\* the records are split into two groups and one record is filtered out
C2_Witness ==
  /\ Fetched
  /\ Len(call.value) >= 2
  /\ Cardinality(Matched) < Len(store)

\* C3: migratedTokens of every returned group is the number of members of
\* the group whose migrated flag is true.
C3_MigratedCount ==
  Fetched =>
    \A k \in GroupIdx :
      call.value[k].migratedTokens =
        Cardinality({j \in TokenIdx(call.value[k]) : call.value[k].tokens[j].migrated})

\* a group with migrated and not migrated members
C3_Witness ==
  /\ Fetched
  /\ \E k \in GroupIdx :
       /\ call.value[k].migratedTokens >= 1
       /\ call.value[k].migratedTokens < call.value[k].totalTokens

\* C4: the estimator returns 0 for an empty rise list; otherwise, with k the
\* integer floor(n * (1 - winPercent/100)) and k < n, it returns (rounded to 4
\* decimals) the member rise of rank k in ascending order, never a value
\* between two members; for the rises 0.2, 0.4, 1.9, 2.1, 3.8, 6.5 and
\* winPercent 70 it returns 0.4.
C4_PercentileIsOrderStatistic ==
  Estimated =>
    LET rises == call.rises
        n == Len(rises)
        k == CHOOSE x \in 0..n :
               /\ 100 * x <= n * (100 - call.winPercent)
               /\ n * (100 - call.winPercent) < 100 * (x + 1)
    IN  /\ (n = 0 => call.value = Num(0))
        /\ (n > 0 /\ k < n =>
              \E j \in 1..n :
                /\ ~call.value.nan
                /\ 2 * Abs(call.value.v - rises[j]) <= E4
                /\ call.value.v % E4 = 0
                /\ Cardinality({i \in 1..n : rises[i] < rises[j]}) <= k
                /\ Cardinality({i \in 1..n : rises[i] <= rises[j]}) >= k + 1)
        /\ (rises = ScenarioARises /\ call.winPercent = 70 => call.value = Num(40000))

\* C5 (as claimed): for every group and every winPercent in [0, 100],
\* commonRiseSol is the 4-decimal rounding of a member rise r, and at least
\* winPercent % of the members have a rise at or above r.
C5_CommonRiseMetByWinPercent ==
  (Fetched /\ WinPercentOf(call.filters) \in 0..100) =>
    \A k \in GroupIdx :
      LET g == call.value[k]
          rise == [j \in TokenIdx(g) |-> riseSol(g.tokens[j])]
      IN  /\ ~g.commonRiseSol.nan
          /\ \E j \in TokenIdx(g) :
               /\ 2 * Abs(g.commonRiseSol.v - rise[j]) <= E4
               /\ 100 * Cardinality({i \in TokenIdx(g) : rise[i] >= rise[j]})
                    >= WinPercentOf(call.filters) * Len(g.tokens)

(***************************************************************************)
(* Properties of findProfitableTokenGroups.                                *)
(***************************************************************************)
ProfitIdx == 1..Len(call.value)

\* the buy price and the rise of the record i of the collection, as decimal
\* amounts
BuyPrice(i) == Min2(store[i].mintSlotSol, store[i].firstSlotSol)
ProfitOf(i) == store[i].maxSol - BuyPrice(i)
Rise(i) == ProfitOf(i)

\* the documents of the collection that make up the returned group g
Members(g) ==
  {i \in 1..Len(store) :
     /\ profitMatch(store[i], OrDefault(call.options.daysBack, DefaultDaysBack))
     /\ Rise(i) >= OrDefault(call.options.minRiseSol, DefaultMinRiseSol)
     /\ profitGroupId(OrDefault(call.options.groupByComputeUnits, FALSE), store[i]) = g._id}

Ladder == 1..Len(Multipliers)

\* the double d is the number a / b up to the rounding of doubles: it is
\* within 2^-30 of it, while the numbers compared differ by far more
Tiny(d) == d.m = <<>> \/ BigBitLen(d.m) + d.e <= 0 - 30
NearRatio(d, a, b) == Tiny(DoubleSub(d, DoubleOfRatio(a, b)))

\* the double d is the amount of num / den units of 0.00001 SOL
Near(d, num, den) == Tiny(DoubleSub(d, DoubleDivInt(DoubleOfUnits(num), den)))

DoubleLe(a, b) == DoubleCmp(a, b) <= 0
DoubleLt(a, b) == DoubleCmp(a, b) < 0

\* members of g that win, lose, at the threshold t, an exact quotient
Winners(g, t) == {i \in Members(g) : Rise(i) * t.den >= t.num}
Losers(g, t) == {i \in Members(g) : Rise(i) * t.den < t.num}

RECURSIVE SumOver(_, _)
\* the sum of f[i] over the finite set I
SumOver(f, I) ==
  IF I = {} THEN 0
  ELSE LET i == CHOOSE x \in I : TRUE IN f[i] + SumOver(f, I \ {i})

\* C6: for every group and every candidate of the ladder, winCount +
\* lossCount is the group's totalTokens, and a candidate with a larger
\* threshold never has a larger winCount.
C6_WinLossAccounting ==
  Profited =>
    \A k \in ProfitIdx :
      LET g == call.value[k]
          o == g.allThresholdOptions
      IN  /\ \A c \in DOMAIN o : o[c].winCount + o[c].lossCount = g.totalTokens
          /\ \A c \in DOMAIN o : \A d \in DOMAIN o :
               DoubleLe(o[c].threshold, o[d].threshold) => o[c].winCount >= o[d].winCount

\* a group where the win count really drops along the ladder and both wins
\* and losses occur at one candidate
C6_Witness ==
  /\ Profited
  /\ \E k \in ProfitIdx :
       LET o == call.value[k].allThresholdOptions
       IN  /\ \E c \in DOMAIN o : o[c].winCount > 0 /\ o[c].lossCount > 0
           /\ \E c \in DOMAIN o : \E d \in DOMAIN o : o[c].winCount > o[d].winCount

\* C7: the ladder has the seven candidates t = m * avgRiseSol, m = 0.3 .. 0.9;
\* at each of them a member with rise >= t is a win and contributes t, a
\* member with rise < t is a loss and contributes max(rise, 0); totalProfit
\* is the sum and avgProfit the mean of the contributions, winRate is
\* winCount / totalTokens and profitabilityScore is winRate * avgProfit.
C7_ThresholdSimulation ==
  Profited =>
    \A k \in ProfitIdx :
      LET g == call.value[k]
          o == g.allThresholdOptions
          n == Cardinality(Members(g))
          S == SumOver([i \in Members(g) |-> Rise(i)], Members(g))
      IN  /\ DOMAIN o = Ladder
          /\ g.totalTokens = n
          /\ \A c \in Ladder :
               LET t == Frac((c + 2) * S, 10 * n)
                   W == Winners(g, t)
                   L == Losers(g, t)
                   lossProfit == SumOver([i \in L |-> Max2(Rise(i), 0)], L)
                   total == Cardinality(W) * t.num + lossProfit * t.den
               IN  /\ Near(o[c].threshold, t.num, t.den)
                   /\ o[c].winCount = Cardinality(W)
                   /\ o[c].lossCount = Cardinality(L)
                   /\ Near(o[c].totalProfit, total, t.den)
                   /\ Near(o[c].avgProfit, total, t.den * n)
                   /\ NearRatio(o[c].winRate, Cardinality(W), n)
                   /\ Near(o[c].profitabilityScore, Cardinality(W) * total, n * t.den * n)

\* the candidates of g whose winRate no other candidate exceeds
BestWinRate(g) ==
  {c \in Ladder : \A d \in Ladder :
     DoubleLe(g.allThresholdOptions[d].winRate, g.allThresholdOptions[c].winRate)}

First(I) == CHOOSE c \in I : \A d \in I : c <= d

\* C8: the conservative threshold is the candidate with the highest winRate,
\* and among several candidates with that winRate it is the earliest of the
\* ladder, which is the smallest threshold of them.
C8_ConservativeEarliestSmallest ==
  Profited =>
    \A k \in ProfitIdx :
      LET g == call.value[k]
          o == g.allThresholdOptions
      IN  /\ g.conservativeThreshold = o[First(BestWinRate(g))].threshold
          /\ \A c \in BestWinRate(g) : DoubleLe(g.conservativeThreshold, o[c].threshold)

\* C9: the recommended threshold is a candidate no other candidate beats on
\* profitabilityScore, the aggressive threshold a candidate no other beats
\* on avgProfit, and the counts and avgProfit reported with each are those
\* of the selected candidate.
C9_OptimalAndAggressive ==
  Profited =>
    \A k \in ProfitIdx :
      LET g == call.value[k]
          o == g.allThresholdOptions
      IN  /\ \E c \in Ladder :
               /\ \A d \in Ladder : DoubleLe(o[d].profitabilityScore, o[c].profitabilityScore)
               /\ g.recommendedSellThreshold = o[c].threshold
               /\ g.recommendedWinCount = o[c].winCount
               /\ g.recommendedLossCount = o[c].lossCount
               /\ g.recommendedAvgProfit = o[c].avgProfit
          /\ \E c \in Ladder :
               /\ \A d \in Ladder : DoubleLe(o[d].avgProfit, o[c].avgProfit)
               /\ g.aggressiveThreshold = o[c].threshold
               /\ g.aggressiveWinCount = o[c].winCount
               /\ g.aggressiveLossCount = o[c].lossCount
               /\ g.aggressiveAvgProfit = o[c].avgProfit

\* a group whose optimal and aggressive selections differ and are neither
\* the first nor all of the ladder
C9_Witness ==
  /\ Profited
  /\ \E k \in ProfitIdx :
       LET g == call.value[k]
           o == g.allThresholdOptions
       IN  /\ g.recommendedSellThreshold # g.aggressiveThreshold
           /\ g.recommendedSellThreshold # o[1].threshold
           /\ \E d \in Ladder : DoubleLt(o[d].profitabilityScore, o[1].profitabilityScore)

\* C10: riskLevel depends on the win rate of the optimal candidate only:
\* HIGH below 0.6, MEDIUM from 0.6 (included) to 0.75 (excluded), LOW from
\* 0.75 (included).
C10_RiskLevel ==
  Profited =>
    \A k \in ProfitIdx :
      LET g == call.value[k]
          wins == g.recommendedWinCount
          n == g.totalTokens
      IN  /\ NearRatio(g.recommendedWinRate, 100 * wins, n)
          /\ (10 * wins < 6 * n => g.riskLevel = "HIGH")
          /\ (10 * wins >= 6 * n /\ 4 * wins < 3 * n => g.riskLevel = "MEDIUM")
          /\ (4 * wins >= 3 * n => g.riskLevel = "LOW")

\* a group whose optimal win rate is exactly 0.6, classified MEDIUM
C10_Witness ==
  /\ Profited
  /\ \E k \in ProfitIdx :
       /\ call.value[k].totalTokens = 5
       /\ call.value[k].recommendedWinCount = 3
       /\ call.value[k].riskLevel = "MEDIUM"

\* a group whose optimal win rate is exactly 0.75, classified LOW
C10_WitnessLow ==
  /\ Profited
  /\ \E k \in ProfitIdx :
       /\ call.value[k].totalTokens = 4
       /\ call.value[k].recommendedWinCount = 3
       /\ call.value[k].riskLevel = "LOW"

(***************************************************************************)
(* Properties of the record filter.                                        *)
(***************************************************************************)
\* the records that satisfy every predicate the caller supplied
SatisfiesSupplied(f, doc) ==
  /\ (IsDefined(f.minMaxSol) => doc.maxSol >= Get(f.minMaxSol))
  /\ (IsDefined(f.startTime) => Get(f.startTime) <= doc.mintTime)
  /\ (IsDefined(f.endTime) => doc.mintTime <= Get(f.endTime))
  /\ (IsDefined(f.mintPattern) => doc.mintPattern = Get(f.mintPattern))
  /\ (IsDefined(f.unitPrice) => doc.unitPrice = Get(f.unitPrice))
  /\ (IsDefined(f.unitLimit) => doc.unitLimit = Get(f.unitLimit))

GroupedMints ==
  {call.value[k].tokens[j].mint : <<k, j>> \in
     {<<k, j>> \in GroupIdx \X (1..Len(store)) : j \in TokenIdx(call.value[k])}}

\* C11 (as claimed): the records that reach grouping are exactly those that
\* satisfy every supplied predicate, a predicate that is not supplied imposes
\* no constraint, and when no record qualifies the result is the empty list.
C11_FilterIsConjunctive ==
  Fetched =>
    /\ GroupedMints = {store[i].mint : i \in {i \in 1..Len(store) :
                                                 SatisfiesSupplied(call.filters, store[i])}}
    /\ ((\A i \in 1..Len(store) : ~SatisfiesSupplied(call.filters, store[i]))
          => call.value = <<>>)

(***************************************************************************)
(* Properties of the key composer.                                         *)
(***************************************************************************)
\* the place of a key part in the canonical order, and the flag enabling it
PartRank(name) ==
  IF name = "pattern" THEN 1 ELSE IF name = "price" THEN 2
  ELSE IF name = "limit" THEN 3 ELSE IF name = "bundle" THEN 4 ELSE 0
PartFlag(name) ==
  IF name = "pattern" THEN "mintPattern" ELSE IF name = "price" THEN "unitPrice"
  ELSE IF name = "limit" THEN "unitLimit" ELSE "postMintBundle"

Given == {call.given[i] : i \in 1..Len(call.given)}

\* the records i and j agree on every enabled dimension
SameOnEnabled(i, j) ==
  /\ ("mintPattern" \in Given => store[i].mintPattern = store[j].mintPattern)
  /\ ("unitPrice" \in Given => store[i].unitPrice = store[j].unitPrice)
  /\ ("unitLimit" \in Given => store[i].unitLimit = store[j].unitLimit)
  /\ ("postMintBundle" \in Given =>
        /\ store[i].bundleSize = store[j].bundleSize
        /\ store[i].totalBuySol = store[j].totalBuySol)

GroupOf(i) ==
  {k \in GroupIdx : \E j \in TokenIdx(call.value[k]) :
     call.value[k].tokens[j].mint = store[i].mint}

\* C12: the dimensions named in a group key are enabled ones and appear in
\* the order pattern, price, limit, bundle whatever the order the flags were
\* given in, and two records that agree on every enabled dimension are in
\* the same group, so under the same key.
C12_KeyCanonical ==
  Fetched =>
    /\ \A k \in GroupIdx :
         LET key == call.value[k].groupKey
         IN  \/ key = <<<<"group", k - 1>>>>
             \/ /\ \A a \in 1..Len(key) :
                     /\ PartRank(key[a][1]) > 0
                     /\ PartFlag(key[a][1]) \in Given
                 /\ \A p \in 1..Len(key) : \A q \in 1..Len(key) :
                      p < q => PartRank(key[p][1]) < PartRank(key[q][1])
    /\ \A i \in 1..Len(store) : \A j \in 1..Len(store) :
         SameOnEnabled(i, j) =>
           /\ GroupOf(i) = GroupOf(j)
           /\ Cardinality(GroupOf(i)) = 1

\* the limit flag was given before the price flag, a key names both, and
\* two records share a group while a third is in another
C12_Witness ==
  /\ Fetched
  /\ \E a \in 1..Len(call.given) : \E b \in 1..Len(call.given) :
       a < b /\ call.given[a] = "unitLimit" /\ call.given[b] = "unitPrice"
  /\ \E k \in GroupIdx :
       /\ Len(call.value[k].groupKey) >= 2
       /\ call.value[k].totalTokens >= 2
  /\ Len(call.value) >= 2

NoDimension ==
  /\ ~call.groupingCriteria.mintPattern
  /\ ~call.groupingCriteria.unitPrice
  /\ ~call.groupingCriteria.unitLimit
  /\ ~call.groupingCriteria.postMintBundle

\* C13: with no dimension enabled and at least one record passing the
\* filters, the result is exactly one group whose members are all the
\* filtered records.
C13_NoDimensionOneGroup ==
  (Fetched /\ NoDimension /\ Matched # {}) =>
    /\ Len(call.value) = 1
    /\ call.value[1].totalTokens = Cardinality(Matched)
    /\ {call.value[1].tokens[j].mint : j \in TokenIdx(call.value[1])}
         = {store[i].mint : i \in Matched}

\* three records, one of them filtered out, the other two of different unit
\* prices in the single group
C13_Witness ==
  /\ Fetched
  /\ NoDimension
  /\ Len(store) = 3
  /\ Cardinality(Matched) = 2
  /\ \E i \in Matched : \E j \in Matched : store[i].unitPrice # store[j].unitPrice
  /\ Len(call.value) = 1

(***************************************************************************)
(* Properties of the rise derivation.                                      *)
(***************************************************************************)
Baseline(doc) == IF doc.mintSlotSol >= MinSlotSol THEN doc.mintSlotSol ELSE doc.mintBuyAmt
RiseOf(doc) == doc.maxSol - Baseline(doc)

\* v is the element at 0-based position idx of the ascending order of the
\* rises of the records in S
AtRank(S, idx, v) ==
  /\ \E i \in S : RiseOf(store[i]) = v
  /\ Cardinality({i \in S : RiseOf(store[i]) < v}) <= idx
  /\ idx < Cardinality({i \in S : RiseOf(store[i]) <= v})

\* C14: the value the percentile estimator reports for a group is the
\* 4-decimal rounding of the rise maxSol - baseline of the member at the
\* percentile position, the baseline being mintSlotSol when it is at least
\* 0.05 SOL and mintBuyAmt otherwise, and the members are returned with
\* their stored maxSol, mintSlotSol and mintBuyAmt.
C14_RiseFromBaseline ==
  Fetched =>
    \A k \in GroupIdx :
      LET g == call.value[k]
          S == {i \in 1..Len(store) : \E j \in TokenIdx(g) : g.tokens[j].mint = store[i].mint}
          idx == (Cardinality(S) * (100 - WinPercentOf(call.filters))) \div 100
      IN  /\ (~g.commonRiseSol.nan) =>
                \E i \in S :
                  /\ AtRank(S, idx, RiseOf(store[i]))
                  /\ g.commonRiseSol.v = MathRound(RiseOf(store[i]), E4) * E4
          /\ \A j \in TokenIdx(g) : \E i \in S :
                /\ g.tokens[j].mint = store[i].mint
                /\ g.tokens[j].maxSol = store[i].maxSol
                /\ g.tokens[j].mintSlotSol = store[i].mintSlotSol
                /\ g.tokens[j].mintBuyAmt = store[i].mintBuyAmt

\* a group with a member whose mintSlotSol is exactly 0.05 SOL, one just
\* below it whose buy amount is the baseline, and a percentile value that
\* is the rise of the former
C14_Witness ==
  /\ Fetched
  /\ Len(call.value) = 1
  /\ \E i \in 1..Len(store) : store[i].mintSlotSol = MinSlotSol /\ store[i].mintBuyAmt > 0
  /\ \E i \in 1..Len(store) : store[i].mintSlotSol = MinSlotSol - 1 /\ store[i].mintBuyAmt > 0
  /\ ~call.value[1].commonRiseSol.nan
  /\ call.value[1].commonRiseSol.v = 95010

\* C15: a call with a winPercent outside [0, 100] ends as an input error
\* and returns no group list.
C15_WinPercentRejected ==
  (/\ call.op = "fetchProfitableTokenGroupsWithMigration"
   /\ call.status # "pending"
   /\ IsDefined(call.filters.winPercent)
   /\ Get(call.filters.winPercent) \notin 0..100)
  => call.status = "rejected"

(***************************************************************************)
(* Properties of the ladder for groups whose average rise is not positive. *)
(***************************************************************************)
RiseSum(g) == SumOver([i \in Members(g) |-> Rise(i)], Members(g))
\* C16: every group whose average rise is zero or negative is reported with
\* thresholds clamped to a minimum of 0, so none of its candidates is
\* negative.
C16_ThresholdsClamped ==
  Profited =>
    \A k \in ProfitIdx :
      RiseSum(call.value[k]) <= 0 =>
        \A c \in Ladder : DoubleLe(DoubleZero, call.value[k].allThresholdOptions[c].threshold)

\* C17: in a group whose average rise is 0 the seven candidates are 0 and
\* the winCount of each is the number of members whose rise is >= 0.
C17_ZeroAverageLadder ==
  Profited =>
    \A k \in ProfitIdx :
      LET g == call.value[k]
      IN  RiseSum(g) = 0 =>
            /\ DOMAIN g.allThresholdOptions = Ladder
            /\ \A c \in Ladder :
                 /\ g.allThresholdOptions[c].threshold = DoubleZero
                 /\ g.allThresholdOptions[c].winCount
                      = Cardinality({i \in Members(g) : Rise(i) >= 0})

(***************************************************************************)
(* Properties of the ranking.                                              *)
(***************************************************************************)
Patterns == {store[i].mintPattern : i \in 1..Len(store)}
WithPattern(p) == {i \in 1..Len(store) : store[i].mintPattern = p}
MigratedOf(I) == {i \in I : store[i].migrated}

\* the documents that reach the $group stage of the profit pipeline
ProfitMatched ==
  {i \in 1..Len(store) :
     /\ profitMatch(store[i], OrDefault(call.options.daysBack, DefaultDaysBack))
     /\ Rise(i) >= OrDefault(call.options.minRiseSol, DefaultMinRiseSol)}

\* the documents of pattern p that reach the $group stage of the profit
\* pipeline, and the value of the sort field of their group
ProfitWith(p) == {i \in ProfitMatched : store[i].mintPattern = p}
MaxRise(I) == CHOOSE r \in {Rise(i) : i \in I} : \A i \in I : Rise(i) <= r

\* the value of the sort field of the returned group g is at least that of
\* the group made of the documents I, up to the rounding of doubles
NotBelow(g, I, sortBy) ==
  IF sortBy = "totalTokens" THEN g.totalTokens >= Cardinality(I)
  ELSE IF sortBy = "maxRiseSol"
       THEN \/ DoubleLe(DoubleOfUnits(MaxRise(I)), g.maxRiseSol)
            \/ Near(g.maxRiseSol, MaxRise(I), 1)
  ELSE \/ DoubleLe(DoubleDivInt(DoubleOfUnits(SumOver([i \in I |-> Rise(i)], I)),
                                Cardinality(I)),
                   g.avgRiseSol)
       \/ Near(g.avgRiseSol, SumOver([i \in I |-> Rise(i)], I), Cardinality(I))

\* the returned group g does not come before a returned group h of a larger
\* sort field
InOrder(g, h, sortBy) ==
  IF sortBy = "totalTokens" THEN g.totalTokens >= h.totalTokens
  ELSE DoubleLe(h[sortBy], g[sortBy])

\* C18: getTopMigratingGroups returns at most limit groups, each of at least
\* two tokens, in non-increasing order of migrationRate, and a group of at
\* least two tokens is absent only when limit groups of no lower rate are
\* returned; findProfitableTokenGroups returns at most limit groups, each of
\* at least minTokensInGroup tokens, in non-increasing order of the sortBy
\* field, and a large-enough group is absent only when limit groups of no
\* lower field value are returned.
C18_RankFilterTruncate ==
  /\ Topped =>
       LET limit == OrDefault(call.limit, DefaultTopLimit)
       IN  /\ Len(call.value) <= limit
           /\ \A k \in GroupIdx : call.value[k].totalTokens >= 2
           /\ \A k \in GroupIdx : \A l \in GroupIdx :
                k < l => call.value[k].migrationRate >= call.value[l].migrationRate
           /\ \A p \in Patterns :
                (/\ Cardinality(WithPattern(p)) >= 2
                 /\ \A k \in GroupIdx : call.value[k].groupIdentifier.mintPattern # Some(p))
                => /\ Len(call.value) = limit
                   /\ \A k \in GroupIdx :
                        call.value[k].migratedTokens * Cardinality(WithPattern(p))
                          >= Cardinality(MigratedOf(WithPattern(p))) * call.value[k].totalTokens
  /\ Profited =>
       LET limit == OrDefault(call.options.limit, DefaultLimit)
           minTokens == OrDefault(call.options.minTokensInGroup, DefaultMinTokensInGroup)
           sortBy == OrDefault(call.options.sortBy, "avgRiseSol")
       IN  /\ Len(call.value) <= limit
           /\ \A k \in ProfitIdx : call.value[k].totalTokens >= minTokens
           /\ \A k \in ProfitIdx : \A l \in ProfitIdx :
                k < l => InOrder(call.value[k], call.value[l], sortBy)
           /\ \A p \in Patterns :
                (/\ Cardinality(ProfitWith(p)) >= minTokens
                 /\ ProfitWith(p) # {}
                 /\ \A k \in ProfitIdx : call.value[k].mintPattern # p)
                => /\ Len(call.value) = limit
                   /\ \A k \in ProfitIdx : NotBelow(call.value[k], ProfitWith(p), sortBy)

(***************************************************************************)
(* Properties of the summary.                                              *)
(***************************************************************************)
\* the groups of the filtered records, as sets of positions in the store
SummaryGroups ==
  (IF call.groupingCriteria.mintPattern
   THEN {WithPattern(p) \cap Matched : p \in Patterns}
   ELSE {Matched}) \ {{}}

\* the 2-decimal migration rate of the group I, in hundredths
RateOf(I) == MathRound(Cardinality(MigratedOf(I)) * 100 * 100, Cardinality(I))

\* v is num / den rounded to an integer, halves rounded up
Rounded(v, num, den) == 2 * (v * den - num) <= den /\ 2 * (num - v * den) < den

SummaryTotals ==
  /\ call.value.totalGroups = Cardinality(SummaryGroups)
  /\ call.value.totalTokens = Cardinality(Matched)
  /\ call.value.totalMigrated = Cardinality(MigratedOf(Matched))
  /\ (call.value.totalTokens > 0 =>
        Rounded(call.value.overallMigrationRate,
                100 * 100 * call.value.totalMigrated, call.value.totalTokens))
  /\ (call.value.totalTokens = 0 => call.value.overallMigrationRate = 0)
  /\ (call.value.totalGroups = 0 =>
        call.value.avgTokensPerGroup = 0 /\ call.value.avgMigrationRatePerGroup = 0)

\* C19: the summary reports the number of groups, the sums of their
\* totalTokens and migratedTokens, the overall rate rounded to 2 decimals,
\* avgTokensPerGroup = totalTokens / totalGroups and
\* avgMigrationRatePerGroup = the mean of the groups' migrationRate, and 0
\* for every rate and average without groups or tokens.
C19_SummaryExactAverages ==
  Summarised =>
    /\ SummaryTotals
    /\ call.value.avgTokensPerGroup * call.value.totalGroups = 100 * call.value.totalTokens
    /\ call.value.avgMigrationRatePerGroup * call.value.totalGroups
         = SumOver([I \in SummaryGroups |-> RateOf(I)], SummaryGroups)

(***************************************************************************)
(* Properties of the fetch under reordering of the collection.             *)
(***************************************************************************)
Perms == {f \in [1..Len(store) -> 1..Len(store)] :
            \A i \in 1..Len(store) : \A j \in 1..Len(store) : f[i] = f[j] => i = j}
Reordered(f) == [i \in 1..Len(store) |-> store[f[i]]]

\* the group lists the call may return on the collection docs
Outcomes(docs) ==
  {fetchProfitableTokenGroupsWithMigration(results, call.filters) :
     results \in aggregate(docs, call.groupingCriteria, call.filters)}

SameFacts(g, h) ==
  /\ g.groupKey = h.groupKey
  /\ g.totalTokens = h.totalTokens
  /\ g.migratedTokens = h.migratedTokens
  /\ g.migrationRate = h.migrationRate
  /\ g.commonRiseSol = h.commonRiseSol

\* the group lists v and w describe the same groups
SameGroups(v, w) ==
  /\ \A k \in 1..Len(v) : \E l \in 1..Len(w) :
       v[k].groupIdentifier = w[l].groupIdentifier /\ SameFacts(v[k], w[l])
  /\ \A l \in 1..Len(w) : \E k \in 1..Len(v) :
       v[k].groupIdentifier = w[l].groupIdentifier /\ SameFacts(v[k], w[l])

PositionIn(docs, mint) == CHOOSE i \in 1..Len(docs) : docs[i].mint = mint

\* every member list of v is in the order of docs
KeepsOrder(v, docs) ==
  \A k \in 1..Len(v) : \A a \in TokenIdx(v[k]) : \A b \in TokenIdx(v[k]) :
    a < b => PositionIn(docs, v[k].tokens[a].mint) < PositionIn(docs, v[k].tokens[b].mint)

\* C20: whatever the order of the records, and on every run, the returned
\* groups have the same keys, totalTokens, migratedTokens, migrationRate and
\* commonRiseSol and the same summary, and each member list is in the order
\* of the records in the collection.
C20_OrderInsensitive ==
  Fetched =>
    /\ KeepsOrder(call.value, store)
    /\ \A f \in Perms : \A v \in Outcomes(Reordered(f)) :
         /\ SameGroups(v, call.value)
         /\ getGroupingSummary(v) = getGroupingSummary(call.value)
         /\ KeepsOrder(v, Reordered(f))

(***************************************************************************)
(* Properties of compareTimePeriods.                                       *)
(***************************************************************************)
\* the summaries a getGroupingSummary call with these arguments returns when
\* it runs alone on the store
AloneSummaries(groupingCriteria, filters) ==
  {getGroupingSummary(fetchProfitableTokenGroupsWithMigration(results, filters)) :
     results \in aggregate(store, groupingCriteria, filters)}

\* C21: in every interleaving of the fetch and compute steps of the two
\* summary calls, each call that has returned holds a result it returns when
\* run alone with its arguments on the same store.
C21_ConcurrentCallsIndependent ==
  Comparing =>
    \A who \in Callers :
      call[who].status = "resolved" =>
        call[who].value \in AloneSummaries(call[who].groupingCriteria, call[who].filters)

\* both calls had fetched before either computed, their group lists differ,
\* and both have returned
C21_Witness ==
  /\ Compared
  /\ call.recent.groups # call.older.groups
  /\ call.recent.value.totalTokens > 0
  /\ call.older.value.totalTokens > 0
  /\ call.recent.value # call.older.value

(***************************************************************************)
(* Properties of the engine under a failing query.                         *)
(***************************************************************************)
QueryFailed ==
  /\ call.op \in EngineOps
  /\ "aggregate" \in DOMAIN call
  /\ call.aggregate.status = "rejected"

\* C22: when the aggregate query of an operation fails, the operation has
\* sent it once and sends no other, neither it nor the fetch it awaits
\* returns a value, and the fetch and the operation, once settled, are
\* rejected with the error of the query.
C22_FetchFailurePropagates ==
  QueryFailed =>
    /\ call.queries = 1
    /\ "value" \notin DOMAIN call
    /\ call.status \in {"pending", "rejected"}
    /\ (call.status = "rejected" => call.error = call.aggregate.error)
    /\ call.awaited.status \in {"none", "pending", "rejected"}
    /\ (call.awaited.status = "rejected" => call.awaited.error = call.aggregate.error)
    /\ (call.op \in AwaitingFetch /\ call.status = "rejected"
          => call.awaited.status = "rejected")

\* a getGroupingSummary call on a non-empty store rejected with the network
\* error of its query, through the rejection of the fetch it awaits
C22_Witness ==
  /\ QueryFailed
  /\ call.op = "getGroupingSummary"
  /\ Len(store) > 0
  /\ call.awaited.status = "rejected"
  /\ call.status = "rejected"
  /\ call.error = "MongoNetworkError"

(***************************************************************************)
(* Properties of the migration rate distribution.                          *)
(***************************************************************************)
\* C29: the distribution reports an avgMigrationRate that is a number in
\* [0, 100], 0 when there are no groups, and bucket counts that sum to
\* totalGroups.
C29_DistributionWellFormed ==
  Distributed =>
    LET d == call.value.distribution
        avg == call.value.avgMigrationRate
    IN  /\ d.veryHigh + d.high + d.medium + d.low + d.veryLow = call.value.totalGroups
        /\ ~avg.nan
        /\ (~avg.nan => DoubleLe(DoubleZero, avg.v) /\ DoubleLe(avg.v, DoubleOfInt(100)))
        /\ (call.value.totalGroups = 0 => ~avg.nan /\ avg.v = DoubleZero)

(***************************************************************************)
(* Properties of the risk report of findProfitableTokenGroups.             *)
(***************************************************************************)
\* the risk level by the coefficient of variation of the rises of the
\* members I (population standard deviation over mean, rises in 0.01 SOL):
\* CV < 0.3 is LOW, CV > 0.5 is HIGH
RiskByCV(I) ==
  LET n == Cardinality(I)
      S == SumOver([i \in I |-> Rise(i) \div E2], I)
      Q == SumOver([i \in I |-> (Rise(i) \div E2) * (Rise(i) \div E2)], I)
      var == n * Q - S * S
  IN  IF 100 * var < 9 * S * S THEN "LOW"
      ELSE IF 100 * var > 25 * S * S THEN "HIGH" ELSE "MEDIUM"

\* C24: every returned group carries a coefficientOfVariation next to its
\* riskLevel, and the riskLevel is the one the coefficient of variation of
\* the rises of its members gives.
C24_RiskLevelByCV ==
  Profited =>
    \A k \in ProfitIdx :
      /\ "coefficientOfVariation" \in DOMAIN call.value[k]
      /\ call.value[k].riskLevel = RiskByCV(Members(call.value[k]))

(***************************************************************************)
(* Properties of the buy price and the rise of the profit queries.         *)
(***************************************************************************)
\* the record of the store a returned token was made from
Origin(t) == CHOOSE i \in 1..Len(store) : store[i].mint = t.mint

\* C25: in both profit queries a token is reported with buy price
\* min(mintSlotSol, firstSlotSol) and rise maxSol - buy price, only tokens
\* of rise >= minRiseSol are returned or counted, and totalTokens,
\* avgRiseSol and the ladder of a group are over its tokens of rise >=
\* minRiseSol only.
C25_RiseOverBuyPrice ==
  /\ TokensFound =>
       LET Q == {i \in 1..Len(store) : ProfitOf(i) >= call.minRiseSol}
       IN  /\ \A j \in 1..Len(call.value) :
                LET t == call.value[j]
                IN  /\ t.buyPriceSol = BuyPrice(Origin(t))
                    /\ Near(t.riseSol, ProfitOf(Origin(t)), 1)
                    /\ Origin(t) \in Q
           /\ Len(call.value) = Min2(call.limit, Cardinality(Q))
  /\ Profited =>
       LET minRiseSol == OrDefault(call.options.minRiseSol, DefaultMinRiseSol)
       IN  \A k \in ProfitIdx :
             LET g == call.value[k]
                 Q == {i \in 1..Len(store) :
                         /\ profitMatch(store[i], OrDefault(call.options.daysBack, DefaultDaysBack))
                         /\ store[i].mintPattern = g.mintPattern
                         /\ ProfitOf(i) >= minRiseSol}
                 S == SumOver([i \in Q |-> ProfitOf(i)], Q)
             IN  /\ \A j \in 1..Len(g.tokens) :
                      /\ g.tokens[j].buyPriceSol = BuyPrice(Origin(g.tokens[j]))
                      /\ Near(g.tokens[j].riseSol, ProfitOf(Origin(g.tokens[j])), 1)
                      /\ Origin(g.tokens[j]) \in Q
                 /\ g.totalTokens = Cardinality(Q)
                 /\ Near(g.avgRiseSol, S, Cardinality(Q))
                 /\ \A c \in Ladder :
                      Near(g.allThresholdOptions[c].threshold, (c + 2) * S, 10 * Cardinality(Q))

(***************************************************************************)
(* Properties of the ladder of groups whose average rise is not negative.  *)
(***************************************************************************)
\* C26: in a group whose average rise is >= 0 every candidate has a
\* winCount of at least 1, so the three selected win rates are positive,
\* and every candidate with a threshold >= 0 has 0 <= avgProfit <= threshold.
C26_LadderHasWinners ==
  Profited =>
    \A k \in ProfitIdx :
      LET g == call.value[k]
          o == g.allThresholdOptions
      IN  /\ RiseSum(g) >= 0 =>
               /\ \A c \in Ladder : o[c].winCount >= 1
               /\ DoubleLt(DoubleZero, g.recommendedWinRate)
               /\ DoubleLt(DoubleZero, g.conservativeWinRate)
               /\ DoubleLt(DoubleZero, g.aggressiveWinRate)
          /\ \A c \in Ladder :
               DoubleLe(DoubleZero, o[c].threshold) =>
                 /\ DoubleLe(DoubleZero, o[c].avgProfit)
                 /\ DoubleLe(o[c].avgProfit, o[c].threshold)

\* the mints of the tokens in the groups one of the two calls fetched
CountedBy(who) ==
  {call[who].groups[k].tokens[j].mint :
     <<k, j>> \in {<<k, j>> \in (1..Len(call[who].groups)) \X (1..Len(store)) :
                    j <= Len(call[who].groups[k].tokens)}}

\* C27: no record is counted both in the recent and in the older summary of
\* compareTimePeriods, a record minted exactly at now - period1Days included.
C27_PeriodsDisjoint ==
  (Comparing /\ call.recent.status # "pending" /\ call.older.status # "pending") =>
    /\ CountedBy("recent") \cap CountedBy("older") = {}
    /\ call.recent.filters.startTime = Some(Now - call.period1Days * Day)
    /\ \A i \in 1..Len(store) :
         ~(/\ matchQuery(call.recent.filters, store[i])
           /\ matchQuery(call.older.filters, store[i]))

(***************************************************************************)
(* Properties of the group key as a string.                                *)
(***************************************************************************)
\* the digits of the fraction f / (10 * p) of a SOL, without trailing zeros
RECURSIVE FractionDigits(_, _)
FractionDigits(f, p) ==
  ToString(f \div p) \o (IF f % p = 0 THEN "" ELSE FractionDigits(f % p, p \div 10))

\* the decimal string of a non-negative amount of SOL
AmountString(x) ==
  IF x % SOL = 0 THEN ToString(x \div SOL)
  ELSE ToString(x \div SOL) \o "." \o FractionDigits(x % SOL, SOL \div 10)

\* the string a key part stands for
PartString(part) ==
  IF part[1] = "pattern" THEN "pattern:" \o part[2]
  ELSE IF part[1] = "bundle"
       THEN "bundle:" \o ToString(part[2]) \o "-" \o AmountString(part[3])
  ELSE IF part[1] = "group" THEN "group-" \o ToString(part[2])
  ELSE part[1] \o ":" \o ToString(part[2])

\* groupKeyParts.join('|') || `group-${index}`
RECURSIVE KeyString(_)
KeyString(key) ==
  IF Len(key) = 1 THEN PartString(key[1])
  ELSE PartString(key[1]) \o "|" \o KeyString(Tail(key))

\* C28: within one result two different groups never have the same groupKey
\* string, whatever dimensions are enabled and whatever their values.
C28_KeysDistinct ==
  Fetched =>
    \A k \in GroupIdx : \A l \in GroupIdx :
      k # l =>
        /\ call.value[k].groupIdentifier # call.value[l].groupIdentifier
        /\ KeyString(call.value[k].groupKey) # KeyString(call.value[l].groupKey)

\* three groups by pattern and limit: the empty pattern with limit 0, and
\* the patterns "a" and "a|limit:1" with limit 1
C28_Witness ==
  /\ Fetched
  /\ Len(call.value) = 3
  /\ \E k \in GroupIdx : KeyString(call.value[k].groupKey) = "limit:0"
  /\ \E k \in GroupIdx : KeyString(call.value[k].groupKey) = "pattern:a|limit:1"
  /\ \E k \in GroupIdx : KeyString(call.value[k].groupKey) = "pattern:a|limit:1|limit:1"

\* the group of the empty pattern under the fallback key next to a group
\* keyed by its pattern
C28_WitnessFallback ==
  /\ Fetched
  /\ \E k \in GroupIdx : KeyString(call.value[k].groupKey) = "group-1"
  /\ \E k \in GroupIdx : KeyString(call.value[k].groupKey) = "pattern:b"

\* a bundle key with a fractional volume
C28_WitnessBundle ==
  /\ Fetched
  /\ \E k \in GroupIdx : KeyString(call.value[k].groupKey) = "price:0|bundle:1-0.02"

(***************************************************************************)
(* Properties of the entry points.                                         *)
(***************************************************************************)
\* the entry points the claim names
NamedEntryPoints == {"appMain", "runMigrationAnalysis", "analysisMain", "myCustomAnalysis"}

\* C30: each of the app main, runMigrationAnalysis, the interactive
\* analysis main and myCustomAnalysis, once it has connected, eventually
\* calls disconnect, whether its queries succeed or one of them fails.
C30_DisconnectAfterConnect ==
  [](call.op \in NamedEntryPoints /\ call.connected => <>call.disconnectCalled)

(***************************************************************************)
(* Properties of the engine as a reader of the collection.                 *)
(***************************************************************************)
\* C23: no step of any operation of QueryService or CommonQueries changes
\* the collection: it holds the same records with the same field values
\* before and after.
C23_StoreReadOnly ==
  [][store' = store]_vars

\* deepDivePattern has returned, after its two queries were answered from
\* a collection of three records, the groups and the summary of a pattern
C23_Witness ==
  /\ call.op = "deepDivePattern"
  /\ call.status = "resolved"
  /\ Len(store) = 3
  /\ Len(call.value.subGroups) > 0
  /\ call.value.summary.totalTokens > 1
  /\ \A i \in 1..Len(store) : store[i].mint = i

====
